---- MODULE Spec2Model ----
(***************************************************************************)
(* A model of the key-value server: the stream type and its identifiers,   *)
(* the command handlers, the per-connection session loop of the primary    *)
(* with its transaction queue, the fan-out of frames to replicas, the WAIT *)
(* barrier, and the replica's processing of the frames it receives.        *)
(*                                                                         *)
(* Bytes received from the wire (bulk strings) are sequences of one-       *)
(* character strings, so that the code's parsing of them is modelled       *)
(* character by character; replies are strings built by concatenation.     *)
(***************************************************************************)
EXTENDS Integers, Sequences, FiniteSets, TLC

VARIABLES
    data,            \* RedisDatabase.data of the primary: key -> RedisValue
    overflow_checks, \* whether the build panics on integer overflow (else it wraps)
    xlog,            \* history: the ids XADD returned for the stream key since it last became a stream
    xlast            \* history: the last XADD call and its outcome

streamVars == <<data, overflow_checks, xlog, xlast>>

VARIABLES
    master_repl_offset, \* replication_info["master_repl_offset"] of the primary
    slave_connections,  \* RedisDatabase.slave_connections: the registry, in order
    lock,               \* per connection, the holder of the Mutex around its stream
    pc,                 \* per connection, where its session task (handle_client) is
    inbox,              \* per connection, what the peer has written and the primary has not read
    pending,            \* per connection, partial_message: the frames read and not yet processed
    cur,                \* per connection, the result of parse_redis_message being handled
    client_state,       \* per connection, the transaction queue (ClientState)
    exec,               \* per connection, the queued commands EXEC still runs, and their replies
    slaves,             \* per connection, the registry clone a fan-out or WAIT walks through
    wait,               \* per connection, the locals of a WAIT: num_slaves, responding_slaves, sent
    out,                \* per client, the last reply written to it
    awaiting,           \* per client, whether it waits for the reply to its last request
    nsent               \* per client, the number of requests it has sent

primaryVars == <<master_repl_offset, slave_connections, lock, pc, inbox, pending, cur,
                 client_state, exec, slaves, wait, out, awaiting, nsent>>

VARIABLES
    chan,               \* per replica connection, what the primary has written and the replica has not read
    rdata,              \* per replica, its RedisDatabase.data
    slave_repl_offset,  \* per replica, replication_info["slave_repl_offset"]
    rstuck,             \* per replica, whether bytes that are no frame head its buffer
    rclient,            \* per replica, the number of requests ordinary clients have sent it
    handshake           \* per replica, how far its handshake with the primary has come

replicaVars == <<chan, rdata, slave_repl_offset, rstuck, rclient, handshake>>

VARIABLES
    applied,            \* history: the writes in the order the primary applied them
    sentlog,            \* history: per replica connection, the client frames written to it, in order
    done,               \* history: per connection, the request being handled or last handled
    rcvd_bytes,         \* history: per replica, the bytes of the frames it took from the primary
    acked,              \* history: per connection in a WAIT, the replicas whose ACK arrived since its broadcast
    due,                \* history: the bytes of the accepted write frames and of the GETACK broadcasts
    asked,              \* history: per replica, master_repl_offset when it was last sent GETACK
    answered            \* history: per replica, the offset of its last ACK, and whether all GETACKs are answered

historyVars == <<applied, sentlog, done, rcvd_bytes, acked, due, asked, answered>>

VARIABLES
    wire,               \* the bytes a client has written that its session has not read
    partial_message,    \* partial_message of that session: the bytes read and not yet drained
    results,            \* history: the tuples parse_redis_message pushed, in order, with the bytes given to it
    crashed,            \* whether the session task panicked
    script,             \* history: the frames the client writes
    reads               \* history: the number of reads that returned bytes

codecVars == <<wire, partial_message, results, crashed, script, reads>>

VARIABLES
    xread,              \* per connection, the locals of a handle_xread in progress
    gone,               \* per connection, whether the peer has closed it
    xhist               \* history: per connection, what happened since its XREAD began

blockVars == <<xread, gone, xhist>>

vars == <<streamVars, primaryVars, replicaVars, historyVars, codecVars, blockVars>>

(***************************************************************************)
(* Bounds of the model.                                                    *)
(***************************************************************************)
\* u64::MAX, scaled down: numbers are kept in 0..U64Max and an addition
\* beyond it overflows as the 64-bit one does.
U64Max == 3
\* The number of successful XADDs followed on one stream.
MaxXlog == 3
\* The greatest milliseconds part a client gives and the clock reads.
MaxMs == 1

(***************************************************************************)
(* Characters, numbers and strings.                                        *)
(***************************************************************************)
DigitChars == {"0", "1", "2", "3", "4", "5", "6", "7", "8", "9"}

DigitVal(c) ==
    CASE c = "0" -> 0 [] c = "1" -> 1 [] c = "2" -> 2 [] c = "3" -> 3
      [] c = "4" -> 4 [] c = "5" -> 5 [] c = "6" -> 6 [] c = "7" -> 7
      [] c = "8" -> 8 [] c = "9" -> 9

DigitStr(d) ==
    CASE d = 0 -> "0" [] d = 1 -> "1" [] d = 2 -> "2" [] d = 3 -> "3"
      [] d = 4 -> "4" [] d = 5 -> "5" [] d = 6 -> "6" [] d = 7 -> "7"
      [] d = 8 -> "8" [] d = 9 -> "9"

\* Err(_) of a parse
None == -1

RECURSIVE ParseDigits(_, _)
ParseDigits(s, acc) ==
    IF s = <<>> THEN acc
    ELSE IF Head(s) \notin DigitChars THEN None
    ELSE LET n == acc * 10 + DigitVal(Head(s))
         IN  IF n > U64Max THEN None ELSE ParseDigits(Tail(s), n)

\* str::parse::<u64>: an optional '+', then at least one digit, no overflow
parse_u64(s) ==
    LET t == IF s # <<>> /\ Head(s) = "+" THEN Tail(s) ELSE s
    IN  IF t = <<>> THEN None ELSE ParseDigits(t, 0)

\* u64::to_string, as a string
RECURSIVE to_string(_)
to_string(n) ==
    IF n < 10 THEN DigitStr(n) ELSE to_string(n \div 10) \o DigitStr(n % 10)

\* u64::to_string, as the characters written into a frame
RECURSIVE to_chars(_)
to_chars(n) ==
    IF n < 10 THEN <<DigitStr(n)>> ELSE Append(to_chars(n \div 10), DigitStr(n % 10))

Range(seq) == {seq[i] : i \in 1..Len(seq)}

\* the text of a sequence of characters
RECURSIVE Join(_)
Join(s) == IF s = <<>> THEN "" ELSE Head(s) \o Join(Tail(s))

ends_with(s, suffix) ==
    /\ Len(s) >= Len(suffix)
    /\ SubSeq(s, Len(s) - Len(suffix) + 1, Len(s)) = suffix

contains(s, c) == \E i \in 1..Len(s) : s[i] = c

\* str::trim_end_matches: the suffix is removed as often as it occurs
RECURSIVE trim_end_matches(_, _)
trim_end_matches(s, suffix) ==
    IF ends_with(s, suffix)
    THEN trim_end_matches(SubSeq(s, 1, Len(s) - Len(suffix)), suffix)
    ELSE s

\* str::split(c), collected: the pieces between the occurrences of c
RECURSIVE split(_, _)
split(s, c) ==
    IF ~contains(s, c) THEN <<s>>
    ELSE LET i == CHOOSE j \in 1..Len(s) : s[j] = c /\ \A k \in 1..(j - 1) : s[k] # c
         IN  <<SubSeq(s, 1, i - 1)>> \o split(SubSeq(s, i + 1, Len(s)), c)

(***************************************************************************)
(* StreamID (database.rs).                                                 *)
(***************************************************************************)
StreamID(ms, seq) == [milliseconds_time |-> ms, sequence_number |-> seq]

zero == StreamID(0, 0)

\* Ord for StreamID: milliseconds_time first, then sequence_number
IdLess(a, b) ==
    \/ a.milliseconds_time < b.milliseconds_time
    \/ /\ a.milliseconds_time = b.milliseconds_time
       /\ a.sequence_number < b.sequence_number

is_valid_ge(self, last_id) ==
    IF self.milliseconds_time > last_id.milliseconds_time THEN TRUE
    ELSE IF self.milliseconds_time = last_id.milliseconds_time
         THEN self.sequence_number >= last_id.sequence_number
         ELSE FALSE

is_valid(self, last_id) ==
    IF self.milliseconds_time > last_id.milliseconds_time THEN TRUE
    ELSE IF self.milliseconds_time = last_id.milliseconds_time
         THEN self.sequence_number > last_id.sequence_number
         ELSE FALSE

\* the greatest key of a non-empty BTreeMap<StreamID, _>
MaxId(stream) ==
    CHOOSE m \in DOMAIN stream : \A i \in DOMAIN stream : i = m \/ IdLess(i, m)

\* stream.iter().rev().find(|(id, _)| id.milliseconds_time == ms)
SeqsAt(stream, ms) ==
    {i.sequence_number : i \in {j \in DOMAIN stream : j.milliseconds_time = ms}}

MaxOf(S) == CHOOSE m \in S : \A n \in S : n <= m

\* id.sequence_number + 1 on a u64: beyond u64::MAX the addition panics where
\* overflow checks are compiled in and wraps to 0 where they are not.  The
\* result is None for the panic.
AddOne(n, checks) ==
    IF n < U64Max THEN n + 1 ELSE IF checks THEN None ELSE 0

\* StreamID::generate, with the clock's reading
generate(stream, current_time, checks) ==
    LET at == SeqsAt(stream, current_time)
        sequence_number == IF at = {} THEN 0 ELSE AddOne(MaxOf(at), checks)
    IN  StreamID(current_time, sequence_number)

\* StreamID::generate_with_time
generate_with_time(milliseconds_time, stream, checks) ==
    LET at == SeqsAt(stream, milliseconds_time)
        sequence_number ==
            IF milliseconds_time = 0
            THEN IF at = {} THEN 1 ELSE AddOne(MaxOf(at), checks)
            ELSE IF at = {} THEN 0 ELSE AddOne(MaxOf(at), checks)
    IN  StreamID(milliseconds_time, sequence_number)

\* StreamID::from_str: whether the text is "<u64>-<u64>", and the identifier
from_str_ok(id_str) ==
    LET parts == split(id_str, "-")
    IN  /\ Len(parts) = 2
        /\ parse_u64(parts[1]) # None
        /\ parse_u64(parts[2]) # None

from_str(id_str) ==
    LET parts == split(id_str, "-")
    IN  StreamID(parse_u64(parts[1]), parse_u64(parts[2]))

\* Display for StreamID
IdText(id) == to_string(id.milliseconds_time) \o "-" \o to_string(id.sequence_number)

(***************************************************************************)
(* RedisValue (database.rs).                                               *)
(***************************************************************************)
\* From<String> for RedisValueType: a string that parses as a u64 is kept as
\* the number
StringToValueType(s) ==
    IF parse_u64(s) # None
    THEN [kind |-> "IntegerValue", v |-> parse_u64(s)]
    ELSE [kind |-> "StringValue", v |-> s]

StreamToValueType(stream) == [kind |-> "StreamValue", v |-> stream]

\* RedisValue::new: ttl_millis is None, or Some(ttl) given as the number
TtlStateOf(ttl_millis) ==
    IF ttl_millis = None THEN "None"
    ELSE IF ttl_millis = 0 THEN "Expired" ELSE "Waiting"

\* elapsed: whether creation_time.elapsed() >= ttl by now
RedisValue(value, ttl_millis) ==
    [value |-> value, ttl_state |-> TtlStateOf(ttl_millis), elapsed |-> FALSE]

is_expired(rv) ==
    CASE rv.ttl_state = "Waiting" -> rv.elapsed
      [] rv.ttl_state = "Expired" -> TRUE
      [] rv.ttl_state = "None" -> FALSE

\* RedisDatabase::insert / get / remove on the map key -> RedisValue
db_insert(db, key, rv) == [k \in (DOMAIN db) \cup {key} |-> IF k = key THEN rv ELSE db[k]]

db_has(db, key) == key \in DOMAIN db

db_remove(db, key) == [k \in (DOMAIN db) \ {key} |-> db[k]]

EmptyMap == [k \in {} |-> 0]

(***************************************************************************)
(* handle_xadd (commands.rs).  A handler's result is the database after it *)
(* and its reply; panic says that the handler panicked (and replied        *)
(* nothing).                                                               *)
(***************************************************************************)
Result(db, resp) == [db |-> db, resp |-> resp, panic |-> FALSE]

Panic(db) == [db |-> db, resp |-> "", panic |-> TRUE]

ERR_XADD_ARGS == "-ERR wrong number of arguments for 'xadd' command\r\n"
ERR_XADD_TYPE == "-ERR wrong type for 'xadd' command\r\n"
ERR_XADD_ZERO == "-ERR The ID specified in XADD must be greater than 0-0\r\n"
ERR_XADD_TOP == "-ERR The ID specified in XADD is equal or smaller than the target stream top item\r\n"
ERR_XADD_ID == "-ERR invalid stream ID\r\n"

BulkOfText(t) == "$" \o to_string(Len(t)) \o "\r\n" \o t \o "\r\n"

\* the entry's HashMap: args[i] -> args[i + 1] for i = 2, 4, ... (0-based),
\* a later pair replacing an earlier one of the same field
RECURSIVE EntryOf(_, _)
EntryOf(args, i) ==
    IF i + 1 > Len(args) THEN EmptyMap
    ELSE LET rest == EntryOf(args, i + 2)
         IN  [f \in (DOMAIN rest) \cup {args[i]} |->
                 IF f \in DOMAIN rest THEN rest[f] ELSE args[i + 1]]

IsStream(db, key) == db_has(db, key) /\ db[key].value.kind = "StreamValue"

\* the identifier XADD chooses: [kind |-> "id", id |-> _], or "panic", or the
\* error reply it returns instead
XaddChoose(db, stream_key, stream_id_str, now, checks) ==
    IF stream_id_str = <<"*">>
    THEN IF db_has(db, stream_key)
         THEN IF IsStream(db, stream_key)
              THEN [kind |-> "id", id |-> generate(db[stream_key].value.v, now, checks), resp |-> ""]
              ELSE [kind |-> "err", id |-> zero, resp |-> ERR_XADD_TYPE]
         ELSE [kind |-> "id", id |-> generate(EmptyMap, now, checks), resp |-> ""]
    ELSE IF contains(stream_id_str, "-") /\ ends_with(stream_id_str, <<"-", "*">>)
    THEN LET time_part == parse_u64(trim_end_matches(stream_id_str, <<"-", "*">>))
         IN  IF time_part = None THEN [kind |-> "panic", id |-> zero, resp |-> ""]
             ELSE IF db_has(db, stream_key)
             THEN IF IsStream(db, stream_key)
                  THEN [kind |-> "id",
                        id |-> generate_with_time(time_part, db[stream_key].value.v, checks),
                        resp |-> ""]
                  ELSE [kind |-> "err", id |-> zero, resp |-> ERR_XADD_TYPE]
             ELSE [kind |-> "id",
                   id |-> StreamID(time_part, IF time_part = 0 THEN 1 ELSE 0), resp |-> ""]
    ELSE IF ~from_str_ok(stream_id_str)
         THEN [kind |-> "err", id |-> zero, resp |-> ERR_XADD_ID]
         ELSE [kind |-> "id", id |-> from_str(stream_id_str), resp |-> ""]

handle_xadd(db, args, now, checks) ==
    IF Len(args) < 4 \/ Len(args) % 2 # 0 THEN Result(db, ERR_XADD_ARGS)
    ELSE
    LET stream_key == args[1]
        chosen == XaddChoose(db, stream_key, args[2], now, checks)
    IN  IF chosen.kind = "panic" THEN Panic(db)
        ELSE IF chosen.kind = "err" THEN Result(db, chosen.resp)
        ELSE IF chosen.id.sequence_number = None THEN Panic(db)
        ELSE
        LET stream_id == chosen.id
            entry == EntryOf(args, 3)
        IN  IF ~is_valid(stream_id, zero) THEN Result(db, ERR_XADD_ZERO)
            ELSE IF db_has(db, stream_key)
            THEN IF IsStream(db, stream_key)
                 THEN LET stream == db[stream_key].value.v
                      IN  IF stream # EmptyMap /\ ~is_valid(stream_id, MaxId(stream))
                          THEN Result(db, ERR_XADD_TOP)
                          ELSE Result(
                                 db_insert(db, stream_key,
                                     RedisValue(StreamToValueType(
                                         db_insert(stream, stream_id, entry)), None)),
                                 BulkOfText(IdText(stream_id)))
                 ELSE Result(db, ERR_XADD_TYPE)
            ELSE Result(
                   db_insert(db, stream_key,
                       RedisValue(StreamToValueType(
                           db_insert(EmptyMap, stream_id, entry)), None)),
                   BulkOfText(IdText(stream_id)))

(***************************************************************************)
(* The wire: a request is an array of bulk strings.                        *)
(***************************************************************************)
CRLF == <<"\r", "\n">>

\* $<len>\r\n<bytes>\r\n
EncodeBulk(b) == <<"$">> \o to_chars(Len(b)) \o CRLF \o b \o CRLF

RECURSIVE EncodeBulks(_)
EncodeBulks(bs) == IF bs = <<>> THEN <<>> ELSE EncodeBulk(Head(bs)) \o EncodeBulks(Tail(bs))

\* the bytes of a frame on the wire
Encode(frame) == <<"*">> \o to_chars(Len(frame)) \o CRLF \o EncodeBulks(frame)

LowerChars == <<"a", "b", "c", "d", "e", "f", "g", "h", "i", "j", "k", "l", "m",
                "n", "o", "p", "q", "r", "s", "t", "u", "v", "w", "x", "y", "z">>
UpperChars == <<"A", "B", "C", "D", "E", "F", "G", "H", "I", "J", "K", "L", "M",
                "N", "O", "P", "Q", "R", "S", "T", "U", "V", "W", "X", "Y", "Z">>

UpperChar(c) ==
    IF \E i \in 1..26 : LowerChars[i] = c
    THEN UpperChars[CHOOSE i \in 1..26 : LowerChars[i] = c]
    ELSE c

\* str::to_uppercase
to_uppercase(s) == [i \in 1..Len(s) |-> UpperChar(s[i])]

\* the number of characters of n in decimal
RECURSIVE DecLen(_)
DecLen(n) == IF n < 10 THEN 1 ELSE 1 + DecLen(n \div 10)

\* get_end_of_redis_message on a buffer that starts with the whole frame: the
\* length of the "*<n>" line and, per argument, of the "$<len>" line and of the
\* argument's line, each plus 2 for its \r\n
RECURSIVE LinesLen(_)
LinesLen(bs) ==
    IF bs = <<>> THEN 0
    ELSE (1 + DecLen(Len(Head(bs)))) + 2 + Len(Head(bs)) + 2 + LinesLen(Tail(bs))

get_end_of_redis_message(frame) == (1 + DecLen(Len(frame))) + 2 + LinesLen(frame)

\* parse_redis_message's cursor over one complete frame: past '*', the count
\* and \r\n, then per bulk string past '$', the length, \r\n, the bytes and \r\n
RECURSIVE CursorOver(_)
CursorOver(bs) ==
    IF bs = <<>> THEN 0
    ELSE 1 + (DecLen(Len(Head(bs))) + 2) + (Len(Head(bs)) + 2) + CursorOver(Tail(bs))

\* byte_length = cursor - initial_cursor
byte_length(frame) == 1 + (DecLen(Len(frame)) + 2) + CursorOver(frame)

(***************************************************************************)
(* The handlers of commands.rs.                                            *)
(***************************************************************************)
OK == "+OK\r\n"
NullBulk == "$-1\r\n"
QUEUED == "+QUEUED\r\n"
ERR_SET_ARGS == "-ERR wrong number of arguments for 'set' command\r\n"
ERR_UNKNOWN == "-ERR unknown command\r\n"
ERR_PSYNC_ARGS == "-ERR wrong number of arguments for 'psync' command\r\n"
ERR_PING_ARGS == "-ERR wrong number of arguments for 'ping' command\r\n"
ERR_ECHO_ARGS == "-ERR wrong number of arguments for 'echo' command\r\n"
ERR_WAIT_ARGS == "-ERR wrong number of arguments for WAIT\r\n"
ERR_MULTI == "-ERR MULTI already started\r\n"
ERR_EXEC == "-ERR EXEC without MULTI\r\n"
ERR_DISCARD == "-ERR DISCARD without MULTI\r\n"

PX == <<"P", "X">>

handle_set(db, args) ==
    IF Len(args) = 2
    THEN Result(db_insert(db, args[1], RedisValue(StringToValueType(args[2]), None)), OK)
    ELSE IF Len(args) = 4 /\ to_uppercase(args[3]) = PX
    THEN LET ttl == parse_u64(args[4])
         IN  IF ttl = None THEN Panic(db)
             ELSE Result(db_insert(db, args[1],
                             RedisValue(StringToValueType(args[2]), ttl)), OK)
    ELSE Result(db, ERR_SET_ARGS)

\* Display for a stream: its entries in ascending order of identifier
RECURSIVE EntryText(_, _)
EntryText(entry, fields) ==
    IF fields = {} THEN ""
    ELSE LET f == CHOOSE x \in fields : TRUE
         IN  "    " \o Join(f) \o ": " \o Join(entry[f]) \o ",\n"
                 \o EntryText(entry, fields \ {f})

RECURSIVE StreamText(_, _)
StreamText(stream, ids) ==
    IF ids = {} THEN ""
    ELSE LET i == CHOOSE x \in ids : \A y \in ids : y = x \/ IdLess(x, y)
         IN  "  " \o IdText(i) \o ": {\n" \o EntryText(stream[i], DOMAIN stream[i])
                 \o "  },\n" \o StreamText(stream, ids \ {i})

\* Display for RedisValueType
ValueText(value) ==
    CASE value.kind = "IntegerValue" -> to_string(value.v)
      [] value.kind = "StringValue" -> Join(value.v)
      [] value.kind = "StreamValue" ->
            "{\n" \o StreamText(value.v, DOMAIN value.v) \o "}"

\* RedisValueType::len
ValueLen(value) ==
    CASE value.kind = "IntegerValue" -> DecLen(value.v)
      [] value.kind = "StringValue" -> Len(value.v)
      [] value.kind = "StreamValue" -> Cardinality(DOMAIN value.v)

handle_get_keep(db, args) ==
    IF Len(args) = 0 THEN Panic(db)
    ELSE IF db_has(db, args[1])
    THEN IF is_expired(db[args[1]])
         THEN Result(db, NullBulk)
         ELSE Result(db, "$" \o to_string(ValueLen(db[args[1]].value)) \o "\r\n"
                             \o ValueText(db[args[1]].value) \o "\r\n")
    ELSE Result(db, NullBulk)

handle_get(db, args) ==
    IF Len(args) = 0 THEN Panic(db)
    ELSE IF db_has(db, args[1])
    THEN IF is_expired(db[args[1]])
         THEN Result(db_remove(db, args[1]), NullBulk)
         ELSE Result(db, "$" \o to_string(ValueLen(db[args[1]].value)) \o "\r\n"
                             \o ValueText(db[args[1]].value) \o "\r\n")
    ELSE Result(db, NullBulk)

\* handle_type: the match has the arms of StringValue and StreamValue; a value
\* that SET stored as IntegerValue is a string to the client
handle_type(db, args) ==
    IF Len(args) = 0 THEN Panic(db)
    ELSE IF db_has(db, args[1])
    THEN IF db[args[1]].value.kind = "StreamValue"
         THEN Result(db, "+stream\r\n")
         ELSE Result(db, "+string\r\n")
    ELSE Result(db, "+none\r\n")

handle_ping(db, args) ==
    IF Len(args) = 0 THEN Result(db, "+PONG\r\n")
    ELSE IF Len(args) = 1 THEN Result(db, BulkOfText(Join(args[1])))
    ELSE Result(db, ERR_PING_ARGS)

handle_echo(db, args) ==
    IF Len(args) = 1 THEN Result(db, BulkOfText(Join(args[1])))
    ELSE Result(db, ERR_ECHO_ARGS)

GETACK == <<"G", "E", "T", "A", "C", "K">>

\* the frame REPLCONF ACK <n>, which handle_replconf formats as its reply
AckFrame(n) == <<<<"R", "E", "P", "L", "C", "O", "N", "F">>, <<"A", "C", "K">>, to_chars(n)>>

\* handle_replconf: the reply to GETACK * is the frame REPLCONF ACK <offset>,
\* returned here as [ack |-> offset]; every other REPLCONF is answered +OK
IsGetack(args) == Len(args) = 2 /\ to_uppercase(args[1]) = GETACK /\ args[2] = <<"*">>

\* handle_psync: the reply starts with +FULLRESYNC when two arguments are given
FULLRESYNC == "+FULLRESYNC"

\* Display for ReplicationInfoValue: the offset is the text "0" that
\* initialize_replication stores until the first increment makes it a ByteValue
OffsetText(offset) == IF offset = 0 THEN "0" ELSE to_string(offset) \o " bytes"

handle_psync(db, args, replid, offset) ==
    IF Len(args) = 2
    THEN Result(db, FULLRESYNC \o " " \o replid \o " " \o OffsetText(offset) \o "\r\n")
    ELSE Result(db, ERR_PSYNC_ARGS)

\* handle_replconf, for a node whose slave_repl_offset is soff
handle_replconf(db, args, soff) ==
    IF IsGetack(args) THEN Result(db, Join(Encode(AckFrame(soff)))) ELSE Result(db, OK)

(***************************************************************************)
(* parse_redis_message (parsing.rs) on one complete frame.                 *)
(***************************************************************************)
\* ClientState: the session's transaction queue, None outside a transaction
NoQueue == [active |-> FALSE, queue |-> <<>>]

in_transaction(cs) == cs.active

initialiaze_multiqueue(cs) == [active |-> TRUE, queue |-> <<>>]

deactivate_multiqueue(cs) == NoQueue

\* the replication identifier of the primary
master_replid == "8371b4fb1155b71f4a04d3e1bc3e18c4a990aeeb"

\* the match on the verb that runs a handler, in parse_redis_message and in
\* execute_queued_commands alike.  env holds what the handlers read besides
\* the keyspace: the clock, the build, and the replication offsets.
Execute(command, args, db, env) ==
    CASE command = "SET" -> handle_set(db, args)
      [] command = "GET" -> handle_get(db, args)
      [] command = "ECHO" -> handle_echo(db, args)
      [] command = "PING" -> handle_ping(db, args)
      [] command = "REPLCONF" -> handle_replconf(db, args, env.soff)
      [] command = "PSYNC" -> handle_psync(db, args, master_replid, env.moff)
      [] command = "WAIT" -> Result(db, "")
      [] command = "XADD" -> handle_xadd(db, args, env.now, env.checks)
      [] command = "TYPE" -> handle_type(db, args)
      [] OTHER -> Result(db, ERR_UNKNOWN)

\* what parse_redis_message does with one frame: the tuple it pushes
\* (command, args, response, byte_length), the database and the session's
\* queue after it, the bytes it adds to slave_repl_offset, whether a handler
\* panicked, and whether the queued commands are to be run (EXEC)
Parsed(command, args, response, len, db, cs) ==
    [command |-> command, args |-> args, response |-> response, byte_length |-> len,
     db |-> db, cs |-> cs, soff_add |-> 0, panic |-> FALSE, run_queue |-> FALSE,
     queued |-> FALSE, ran |-> FALSE]

\* lines 98-105: the arm of MULTI
match_MULTI_restart(db, cs) == Parsed("MULTI", <<>>, OK, 0, db, initialiaze_multiqueue(cs))

match_MULTI(db, cs) ==
    IF in_transaction(cs)
    THEN Parsed("MULTI", <<>>, ERR_MULTI, 0, db, cs)
    ELSE Parsed("MULTI", <<>>, OK, 0, db, initialiaze_multiqueue(cs))

\* lines 106-120: the arm of EXEC; the queued commands are run by
\* execute_queued_commands, one handler after the other
match_EXEC(db, cs) ==
    IF in_transaction(cs)
    THEN [Parsed("EXEC", <<>>, "", 0, db, cs) EXCEPT !.run_queue = TRUE]
    ELSE Parsed("EXEC", <<>>, ERR_EXEC, 0, db, cs)

\* lines 121-128: the arm of DISCARD
match_DISCARD_keep(db, cs) ==
    IF in_transaction(cs)
    THEN Parsed("DISCARD", <<>>, OK, 0, db, cs)
    ELSE Parsed("DISCARD", <<>>, ERR_DISCARD, 0, db, cs)

match_DISCARD(db, cs) ==
    IF in_transaction(cs)
    THEN Parsed("DISCARD", <<>>, OK, 0, db, deactivate_multiqueue(cs))
    ELSE Parsed("DISCARD", <<>>, ERR_DISCARD, 0, db, cs)

parse_redis_message(frame, db, cs, role, env) ==
    LET command == Join(to_uppercase(frame[1]))
        args == Tail(frame)
    IN  CASE command = "MULTI" -> match_MULTI(db, cs)
          [] command = "EXEC" -> match_EXEC(db, cs)
          [] command = "DISCARD" -> match_DISCARD(db, cs)
          [] OTHER ->
               IF in_transaction(cs)
               THEN [Parsed(command, args, QUEUED, 0, db,
                            [cs EXCEPT !.queue = Append(@, <<command, args>>)])
                        EXCEPT !.queued = TRUE]
               ELSE LET r == Execute(command, args, db, env)
                    IN  [Parsed(command, args, r.resp, byte_length(frame), r.db, cs)
                            EXCEPT !.panic = r.panic,
                                   !.ran = TRUE,
                                   !.soff_add = IF role = "slave" THEN byte_length(frame)
                                                ELSE 0]

\* execute_queued_commands: the RESP array it formats from the replies
RECURSIVE BulkEach(_)
BulkEach(responses) ==
    IF responses = <<>> THEN ""
    ELSE BulkOfText(Head(responses)) \o BulkEach(Tail(responses))

ExecReply(responses) == "*" \o to_string(Len(responses)) \o "\r\n" \o BulkEach(responses)

(***************************************************************************)
(* network.rs: what handle_client decides from a parsed result.            *)
(***************************************************************************)
should_forward_to_slaves_spec(command) == command \in {"SET", "DEL", "INCR", "XADD"}

should_forward_to_slaves(command) ==
    command \in {"SET", "GET", "DEL", "INCR", "DECR", "MSET", "MGET"}

REPLCONF == <<"R", "E", "P", "L", "C", "O", "N", "F">>

\* replconf_getack_message
replconf_getack_message == <<REPLCONF, GETACK, <<"*">>>>

replconf_getack_byte_len == Len(Encode(replconf_getack_message))

\* response.contains("*3\r\n$8\r\nREPLCONF\r\n$3\r\nACK") on the frames of a chunk
IsAck(frame) == Len(frame) = 3 /\ frame[1] = REPLCONF /\ frame[2] = <<"A", "C", "K">>

ContainsAck(chunk) == \E i \in 1..Len(chunk) : IsAck(chunk[i])

(***************************************************************************)
(* The connections of the primary, and the state after construction.       *)
(***************************************************************************)
\* the stream key of the requests
StreamKey == <<"s">>

NoCall == [args |-> <<>>, resp |-> "", panic |-> FALSE]

Clients == {"c1", "c2"}

\* the connections that replicas opened to the primary
Replicas == {"r1"}

Conns == Clients \cup Replicas

\* the connections of the specifications with one client
TxConns == {"c1"} \cup Replicas

\* the most requests a client sends
MaxCmds == 2

\* the most requests the client of the transaction specification sends
MaxTxCmds == 4

\* the most writes each client of the ordering specification sends
MaxWrites == 2

\* the most requests ordinary clients send to a replica
MaxRepClient == 1

primaryVarsButSlaves == <<master_repl_offset, slave_connections, lock, pc, inbox, pending,
                          cur, client_state, exec, wait, out, awaiting, nsent>>

primaryVarsButSlavesWait == <<master_repl_offset, slave_connections, lock, pc, inbox,
                              pending, cur, client_state, exec, out, awaiting, nsent>>

Free == "free"

\* the Mutex around the RedisDatabase, among the locks
DbLock == "db"

NoCur == [command |-> "", args |-> <<>>, response |-> ""]

NoExec == [queue |-> <<>>, responses |-> <<>>]

NoWait == [num_slaves |-> 0, responding_slaves |-> 0, sent |-> FALSE, result |-> None]

\* what is remembered of the last successful DISCARD of a session: the queue
\* it dropped and the keyspace at that moment; open until the session's next
\* MULTI, clean until the session next runs a handler
NoDiscard == [queue |-> <<>>, db |-> EmptyMap, open |-> FALSE, clean |-> FALSE]

NoDone == [n |-> 0, command |-> "", args |-> <<>>, intx |-> FALSE, mutated |-> FALSE,
           resp |-> "", fanned |-> FALSE, handed |-> {}, regs |-> <<>>, bump |-> 0,
           acks |-> {}, finished |-> FALSE, cs0 |-> NoQueue, db0 |-> EmptyMap,
           discard |-> NoDiscard, sync_at |-> 0]

\* the frames of the requests
F_PSYNC == <<<<"P", "S", "Y", "N", "C">>, <<"?">>, <<"-", "1">>>>
F_SET(v) == <<<<"S", "E", "T">>, <<"k">>, <<v>>>>
F_GET == <<<<"G", "E", "T">>, <<"k">>>>
F_XADD == <<<<"X", "A", "D", "D">>, StreamKey, <<"1", "-", "1">>, <<"f">>, <<"v">>>>
F_MULTI == <<<<"M", "U", "L", "T", "I">>>>
F_EXEC == <<<<"E", "X", "E", "C">>>>
F_DISCARD == <<<<"D", "I", "S", "C", "A", "R", "D">>>>
F_WAIT(n) == <<<<"W", "A", "I", "T">>, <<n>>, <<"1">>>>

\* what a client may send: the first client any of the verbs, the second
\* client one write
Menu(c) == {F_SET("1"), F_GET, F_XADD, F_WAIT("1"), F_WAIT("2")}

\* what the client of the transaction specification may send as its n-th request
MenuMulti(n) ==
    IF n = 1 THEN {F_MULTI, F_SET("1")}
    ELSE IF n = 2 THEN {F_SET("1"), F_GET, F_XADD, F_WAIT("1"), F_MULTI, F_EXEC, F_DISCARD}
    ELSE {F_EXEC, F_DISCARD, F_GET, F_MULTI}

\* a replica has sent PING and REPLCONF and read the replies; its PSYNC is on the wire
InitPrimary ==
    /\ master_repl_offset = 0
    /\ slave_connections = <<>>
    /\ lock = [c \in Conns \cup {DbLock} |-> Free]
    /\ pc = [c \in Conns |-> "next"]
    /\ inbox = [c \in Conns |-> IF c \in Replicas THEN <<F_PSYNC>> ELSE <<>>]
    /\ pending = [c \in Conns |-> <<>>]
    /\ cur = [c \in Conns |-> NoCur]
    /\ client_state = [c \in Conns |-> NoQueue]
    /\ exec = [c \in Conns |-> NoExec]
    /\ slaves = [c \in Conns |-> <<>>]
    /\ wait = [c \in Conns |-> NoWait]
    /\ out = [c \in Clients |-> ""]
    /\ awaiting = [c \in Clients |-> FALSE]
    /\ nsent = [c \in Conns |-> 0]

InitReplica ==
    /\ chan = [r \in Replicas |-> <<>>]
    /\ rdata = [r \in Replicas |-> EmptyMap]
    /\ slave_repl_offset = [r \in Replicas |-> 0]
    /\ rstuck = [r \in Replicas |-> FALSE]
    /\ rclient = [r \in Replicas |-> 0]
    /\ handshake = [r \in Replicas |-> "psync_sent"]

InitHistory ==
    /\ applied = <<>>
    /\ sentlog = [r \in Replicas |-> <<>>]
    /\ done = [c \in Conns |-> NoDone]
    /\ rcvd_bytes = [r \in Replicas |-> 0]
    /\ acked = [c \in Conns |-> {}]
    /\ due = 0
    /\ asked = [r \in Replicas |-> None]
    /\ answered = [r \in Replicas |-> [offset |-> None, open |-> 0]]

\* no client has written anything
IdleCodec ==
    /\ wire = <<>>
    /\ partial_message = <<>>
    /\ results = <<>>
    /\ crashed = FALSE
    /\ script = <<>>
    /\ reads = 0

\* the locals of handle_xread: the arguments, the blocking mode, the index of
\* the next key of the pass, and what the pass has collected
NoXread == [args |-> <<>>, is_blocking |-> FALSE, wait_time_ms |-> 0, args_start |-> 0,
            num_streams |-> 0, i |-> 0, total_streams_with_entries |-> 0,
            streams_data |-> ""]

\* what is remembered of a call of handle_xread: whether it has read a key,
\* the keyspace at its first read, at its last read, and when its timeout
\* fired
NoXhist == [started |-> FALSE, base |-> EmptyMap, seen |-> EmptyMap,
            at_deadline |-> EmptyMap]

\* no XREAD is in progress and every client is connected
IdleBlock ==
    /\ xread = [c \in Conns |-> NoXread]
    /\ gone = [c \in Conns |-> FALSE]
    /\ xhist = [c \in Conns |-> NoXhist]

Init ==
    /\ data = EmptyMap
    /\ overflow_checks = TRUE
    /\ xlog = <<>>
    /\ xlast = NoCall
    /\ InitPrimary /\ InitReplica /\ InitHistory /\ IdleCodec /\ IdleBlock

(***************************************************************************)
(* handle_client (network.rs): the session task of one connection.         *)
(***************************************************************************)
ErrorReplies == {ERR_XADD_ARGS, ERR_XADD_TYPE, ERR_XADD_ZERO, ERR_XADD_TOP, ERR_XADD_ID,
                 ERR_SET_ARGS, ERR_UNKNOWN}

\* what the handlers of the primary read besides the keyspace
PrimaryEnv == [now |-> 0, checks |-> overflow_checks, soff |-> 0, moff |-> master_repl_offset]

\* a write verb whose handler accepted the request
Accepted(command, resp) == should_forward_to_slaves_spec(command) /\ resp \notin ErrorReplies

\* a frame of the same byte length as the one that carried a queued command
FrameOf(command, args) == <<[i \in 1..Len(command) |-> "?"]>> \o args

\* a client writes a request and waits for the reply
ClientSend(c, f, max) ==
    /\ ~awaiting[c] /\ nsent[c] < max
    /\ pc[c] \notin {"closed", "dead"}
    /\ ~gone[c]
    /\ inbox' = [inbox EXCEPT ![c] = Append(@, f)]
    /\ awaiting' = [awaiting EXCEPT ![c] = TRUE]
    /\ nsent' = [nsent EXCEPT ![c] = @ + 1]
    /\ out' = [out EXCEPT ![c] = ""]
    /\ UNCHANGED <<streamVars, replicaVars, historyVars, master_repl_offset,
                   slave_connections, lock, pc, pending, cur, client_state, exec,
                   slaves, wait>>
    /\ UNCHANGED <<codecVars, blockVars>>

\* the top of the loop with nothing left to process: lock the stream and read
AcquireRead(c) ==
    /\ pc[c] = "next" /\ pending[c] = <<>>
    /\ lock[c] = Free
    /\ lock' = [lock EXCEPT ![c] = c]
    /\ pc' = [pc EXCEPT ![c] = "reading"]
    /\ UNCHANGED <<streamVars, replicaVars, historyVars, master_repl_offset,
                   slave_connections, inbox, pending, cur, client_state, exec, slaves,
                   wait, out, awaiting, nsent>>
    /\ UNCHANGED <<codecVars, blockVars>>

\* the read returns what has arrived; the lock guard is dropped
ReadData(c) ==
    /\ pc[c] = "reading" /\ inbox[c] # <<>>
    /\ pending' = [pending EXCEPT ![c] = inbox[c]]
    /\ inbox' = [inbox EXCEPT ![c] = <<>>]
    /\ lock' = [lock EXCEPT ![c] = Free]
    /\ pc' = [pc EXCEPT ![c] = "next"]
    /\ UNCHANGED <<streamVars, replicaVars, historyVars, master_repl_offset,
                   slave_connections, cur, client_state, exec, slaves, wait, out,
                   awaiting, nsent>>
    /\ UNCHANGED <<codecVars, blockVars>>

\* connection_timeout: nothing was read for 30 seconds, the task returns; the
\* stream stays in slave_connections when it was registered (clients do not
\* stay silent that long)
ReadTimeout(c) ==
    /\ IF pc[c] = "reading" THEN inbox[c] = <<>>
       ELSE pc[c] = "next" /\ pending[c] = <<>> /\ lock[c] # Free
    /\ c \in Replicas
    /\ lock' = [lock EXCEPT ![c] = IF @ = c THEN Free ELSE @]
    /\ pc' = [pc EXCEPT ![c] = "closed"]
    /\ UNCHANGED <<streamVars, replicaVars, historyVars, master_repl_offset,
                   slave_connections, inbox, pending, cur, client_state, exec, slaves,
                   wait, out, awaiting, nsent>>
    /\ UNCHANGED <<codecVars, blockVars>>

\* what is remembered of the session's last DISCARD after the result p of a
\* request that found the queue cs and the keyspace db
DiscardAfter(prev, p, cs, db) ==
    IF p.command = "DISCARD" /\ in_transaction(cs)
    THEN [queue |-> cs.queue, db |-> db, open |-> TRUE, clean |-> TRUE]
    ELSE IF p.command = "MULTI" /\ ~in_transaction(cs) THEN NoDiscard
    ELSE IF p.ran \/ p.run_queue THEN [prev EXCEPT !.clean = FALSE]
    ELSE prev

\* whether the next frame to process is an XREAD that is run at once
XreadNext(c) ==
    /\ pc[c] = "next" /\ pending[c] # <<>>
    /\ to_uppercase(Head(pending[c])[1]) = <<"X", "R", "E", "A", "D">>
    /\ ~in_transaction(client_state[c])

\* parse_redis_message on the next complete frame of partial_message (the
\* steps of an XREAD are the actions of handle_xread below)
Dispatch(c) ==
    /\ pc[c] = "next" /\ pending[c] # <<>>
    /\ ~XreadNext(c)
    /\ lock[DbLock] = Free
    /\ \E p \in {parse_redis_message(Head(pending[c]), data, client_state[c], "master",
                                     PrimaryEnv)} :
         \E ok \in {~p.panic /\ p.ran /\ Accepted(p.command, p.response)} :
           /\ data' = IF p.panic THEN data ELSE p.db
           /\ pc' = [pc EXCEPT ![c] = IF p.panic THEN "dead"
                                      ELSE IF p.run_queue THEN "exec" ELSE "respond"]
           /\ client_state' = [client_state EXCEPT ![c] = p.cs]
           /\ cur' = [cur EXCEPT ![c] = [command |-> p.command, args |-> p.args,
                                         response |-> p.response]]
           /\ exec' = [exec EXCEPT ![c] = IF p.run_queue
                                          THEN [queue |-> client_state[c].queue,
                                                responses |-> <<>>]
                                          ELSE @]
           /\ done' = [done EXCEPT ![c] = [NoDone EXCEPT !.n = nsent[c],
                                              !.command = p.command, !.args = p.args,
                                              !.intx = in_transaction(client_state[c]),
                                              !.mutated = p.db # data,
                                              !.cs0 = client_state[c], !.db0 = data,
                                              !.discard = DiscardAfter(done[c].discard, p,
                                                              client_state[c], data)]]
           /\ applied' = IF ok THEN Append(applied, <<c, nsent[c]>>) ELSE applied
           /\ due' = IF ok THEN due + Len(Encode(Head(pending[c]))) ELSE due
    /\ UNCHANGED <<overflow_checks, xlog, xlast, replicaVars, master_repl_offset,
                   slave_connections, lock, inbox, pending, slaves, wait, out, awaiting,
                   nsent, sentlog, rcvd_bytes, acked, asked, answered>>
    /\ UNCHANGED <<codecVars, blockVars>>

\* execute_queued_commands: the next queued command, its handler taking the
\* database lock for itself
ExecStep(c) ==
    /\ pc[c] = "exec" /\ exec[c].queue # <<>>
    /\ \E command \in {Head(exec[c].queue)[1]} : \E args \in {Head(exec[c].queue)[2]} :
       \E r \in {Execute(command, args, data, PrimaryEnv)} :
       \E ok \in {~r.panic /\ Accepted(command, r.resp)} :
           /\ data' = r.db
           /\ pc' = [pc EXCEPT ![c] = IF r.panic THEN "dead" ELSE @]
           /\ exec' = [exec EXCEPT ![c] = [queue |-> Tail(@.queue),
                                           responses |-> Append(@.responses, r.resp)]]
           /\ due' = IF ok THEN due + Len(Encode(FrameOf(command, args))) ELSE due
    /\ UNCHANGED <<overflow_checks, xlog, xlast, replicaVars, master_repl_offset,
                   slave_connections, lock, inbox, pending, cur, client_state, slaves,
                   wait, out, awaiting, nsent, applied, sentlog, done, rcvd_bytes,
                   acked, asked, answered>>
    /\ UNCHANGED <<codecVars, blockVars>>

\* the queue is exhausted: the replies are formatted and the transaction ends
ExecDone(c) ==
    /\ pc[c] = "exec" /\ exec[c].queue = <<>>
    /\ cur' = [cur EXCEPT ![c].response = ExecReply(exec[c].responses)]
    /\ client_state' = [client_state EXCEPT ![c] = deactivate_multiqueue(@)]
    /\ exec' = [exec EXCEPT ![c] = NoExec]
    /\ pc' = [pc EXCEPT ![c] = "respond"]
    /\ UNCHANGED <<streamVars, replicaVars, historyVars, master_repl_offset,
                   slave_connections, lock, inbox, pending, slaves, wait, out, awaiting,
                   nsent>>
    /\ UNCHANGED <<codecVars, blockVars>>

\* what travels from the primary to a replica: a frame, the +FULLRESYNC line
\* with the snapshot after it, or the reply to a frame the replica sent
FrameItem(f) == [kind |-> "frame", frame |-> f, text |-> ""]

SyncItem(t) == [kind |-> "sync", frame |-> <<>>, text |-> t]

ReplyItem(t) == [kind |-> "reply", frame |-> <<>>, text |-> t]

\* response.starts_with("+FULLRESYNC"): the replies of handle_psync for the
\* offsets up to the current one
starts_with_fullresync(response) ==
    \E n \in 0..master_repl_offset :
        response = handle_psync(EmptyMap, <<<<>>, <<>>>>, master_replid, n).resp

\* the request is handled: drain it from partial_message
Drained(c) ==
    /\ pending' = [pending EXCEPT ![c] = Tail(@)]
    /\ cur' = [cur EXCEPT ![c] = NoCur]

\* lines 192-198: the reply is written under the lock of the session's stream
Replied(c, text) ==
    /\ lock[c] = Free
    /\ out' = IF c \in Clients THEN [out EXCEPT ![c] = text] ELSE out
    /\ awaiting' = IF c \in Clients THEN [awaiting EXCEPT ![c] = FALSE] ELSE awaiting

\* lines 104-107 and 206-210: db_lock lives in the block that clones the
\* registry; the guard is dropped where the block ends, before the first write
\* to a replica: the holder of the database lock after the clone
slaves_guard_kept(c) == c

slaves_guard(c) == Free

\* lines 191-238: the reply, and for a verb to forward the clone of the registry
Respond(c) ==
    /\ pc[c] = "respond"
    /\ cur[c].command # "WAIT"
    /\ ~starts_with_fullresync(cur[c].response)
    /\ Replied(c, cur[c].response)
    /\ chan' = IF c \in Replicas
               THEN [chan EXCEPT ![c] = Append(@, ReplyItem(cur[c].response))]
               ELSE chan
    /\ IF should_forward_to_slaves(cur[c].command)
       THEN /\ lock[DbLock] = Free
            /\ lock' = [lock EXCEPT ![DbLock] = slaves_guard(c)]
            /\ slaves' = [slaves EXCEPT ![c] = slave_connections]
            /\ pc' = [pc EXCEPT ![c] = "forward"]
            /\ done' = [done EXCEPT ![c].resp = cur[c].response, ![c].fanned = TRUE,
                                    ![c].regs = slave_connections]
            /\ UNCHANGED <<pending, cur>>
       ELSE /\ pc' = [pc EXCEPT ![c] = "next"]
            /\ done' = [done EXCEPT ![c].resp = cur[c].response, ![c].finished = TRUE,
                                    ![c].regs = slave_connections]
            /\ Drained(c)
            /\ UNCHANGED <<slaves, lock>>
    /\ UNCHANGED <<streamVars, master_repl_offset, slave_connections, inbox,
                   client_state, exec, wait, nsent, rdata, slave_repl_offset, rstuck,
                   rclient, handshake, applied, sentlog, rcvd_bytes, acked, due, asked, answered>>
    /\ UNCHANGED <<codecVars, blockVars>>

\* lines 174-184: the +FULLRESYNC line and the snapshot are written
RespondFullresync(c) ==
    /\ pc[c] = "respond"
    /\ cur[c].command # "WAIT"
    /\ starts_with_fullresync(cur[c].response)
    /\ Replied(c, cur[c].response)
    /\ chan' = IF c \in Replicas
               THEN [chan EXCEPT ![c] = Append(@, SyncItem(cur[c].response))]
               ELSE chan
    /\ pc' = [pc EXCEPT ![c] = "register"]
    /\ done' = [done EXCEPT ![c].resp = cur[c].response, ![c].sync_at = Len(applied)]
    /\ UNCHANGED <<streamVars, master_repl_offset, slave_connections, lock, inbox, pending,
                   cur, client_state, exec, slaves, wait, nsent, rdata, slave_repl_offset,
                   rstuck, rclient, handshake, applied, sentlog, rcvd_bytes, acked, due, asked,
                   answered>>
    /\ UNCHANGED <<codecVars, blockVars>>

\* lines 185-189: the stream joins slave_connections
Register(c) ==
    /\ pc[c] = "register"
    /\ lock[DbLock] = Free
    /\ slave_connections' = Append(slave_connections, c)
    /\ pc' = [pc EXCEPT ![c] = "next"]
    /\ done' = [done EXCEPT ![c].finished = TRUE]
    /\ Drained(c)
    /\ UNCHANGED <<streamVars, replicaVars, master_repl_offset, lock, inbox, client_state,
                   exec, slaves, wait, out, awaiting, nsent, applied, sentlog, rcvd_bytes,
                   acked, due, asked, answered>>
    /\ UNCHANGED <<codecVars, blockVars>>

\* lines 212-219: current_message is written to the next stream of the clone,
\* under that stream's lock
Forward(c) ==
    /\ pc[c] = "forward" /\ slaves[c] # <<>>
    /\ LET t == Head(slaves[c])
       IN  /\ lock[t] = Free
           /\ chan' = IF t \in Replicas
                      THEN [chan EXCEPT ![t] = Append(@, FrameItem(Head(pending[c])))]
                      ELSE chan
           /\ sentlog' = IF t \in Replicas
                         THEN [sentlog EXCEPT ![t] = Append(@, <<c, done[c].n>>)]
                         ELSE sentlog
           /\ done' = [done EXCEPT ![c].handed = @ \cup {t}]
    /\ slaves' = [slaves EXCEPT ![c] = Tail(@)]
    /\ UNCHANGED <<streamVars, primaryVarsButSlaves, rdata, slave_repl_offset, rstuck,
                   rclient, handshake, applied, rcvd_bytes, acked, due, asked, answered>>
    /\ UNCHANGED <<codecVars, blockVars>>

\* lines 221-236: master_repl_offset grows by the length of current_message
OffsetInc(c) ==
    /\ pc[c] = "forward" /\ slaves[c] = <<>>
    /\ lock[DbLock] = Free
    /\ LET bytes_sent == get_end_of_redis_message(Head(pending[c]))
       IN  /\ master_repl_offset' = master_repl_offset + bytes_sent
           /\ done' = [done EXCEPT ![c].bump = bytes_sent, ![c].finished = TRUE]
    /\ pc' = [pc EXCEPT ![c] = "next"]
    /\ Drained(c)
    /\ UNCHANGED <<streamVars, replicaVars, slave_connections, lock, inbox, client_state,
                   exec, slaves, wait, out, awaiting, nsent, applied, sentlog, rcvd_bytes,
                   acked, due, asked, answered>>
    /\ UNCHANGED <<codecVars, blockVars>>

(***************************************************************************)
(* WAIT (network.rs, lines 91-171 and 242-256).                            *)
(***************************************************************************)
\* args[i].parse().unwrap_or(0)
parse_or_zero(s) == IF parse_u64(s) = None THEN 0 ELSE parse_u64(s)

\* lines 93-107: the arguments are checked and the registry is cloned
RespondWait(c) ==
    /\ pc[c] = "respond"
    /\ cur[c].command = "WAIT"
    /\ IF Len(cur[c].args) # 2
       THEN /\ Replied(c, ERR_WAIT_ARGS)
            /\ chan' = IF c \in Replicas
                       THEN [chan EXCEPT ![c] = Append(@, ReplyItem(ERR_WAIT_ARGS))]
                       ELSE chan
            /\ pc' = [pc EXCEPT ![c] = "next"]
            /\ done' = [done EXCEPT ![c].resp = ERR_WAIT_ARGS, ![c].finished = TRUE]
            /\ Drained(c)
            /\ UNCHANGED <<wait, slaves, acked, lock>>
       ELSE /\ wait' = [wait EXCEPT ![c] = [NoWait EXCEPT
                           !.num_slaves = parse_or_zero(cur[c].args[1])]]
            /\ lock[DbLock] = Free
            /\ lock' = [lock EXCEPT ![DbLock] = slaves_guard(c)]
            /\ slaves' = [slaves EXCEPT ![c] = slave_connections]
            /\ pc' = [pc EXCEPT ![c] = "wait_send"]
            /\ acked' = [acked EXCEPT ![c] = {}]
            /\ done' = [done EXCEPT ![c].regs = slave_connections]
            /\ UNCHANGED <<pending, cur, out, awaiting, chan>>
    /\ UNCHANGED <<streamVars, master_repl_offset, slave_connections, inbox,
                   client_state, exec, nsent, rdata, slave_repl_offset, rstuck, rclient, handshake,
                   applied, sentlog, rcvd_bytes, due, asked, answered>>
    /\ UNCHANGED <<codecVars, blockVars>>

\* lines 109-117: REPLCONF GETACK * is written to the next stream of the clone,
\* under that stream's lock
WaitSend(c) ==
    /\ pc[c] = "wait_send" /\ slaves[c] # <<>>
    /\ LET t == Head(slaves[c])
       IN  /\ lock[t] = Free
           /\ chan' = [chan EXCEPT ![t] = Append(@, FrameItem(replconf_getack_message))]
           /\ asked' = [asked EXCEPT ![t] = master_repl_offset]
           /\ answered' = [answered EXCEPT ![t].open = @ + 1]
    /\ wait' = [wait EXCEPT ![c].sent = TRUE]
    /\ slaves' = [slaves EXCEPT ![c] = Tail(@)]
    /\ UNCHANGED <<streamVars, primaryVarsButSlavesWait, rdata, slave_repl_offset, rstuck,
                   rclient, handshake, applied, sentlog, done, rcvd_bytes, acked, due>>
    /\ UNCHANGED <<codecVars, blockVars>>

\* lines 120-129: the timeout starts and the loop clones the registry
WaitStart(c) ==
    /\ pc[c] = "wait_send" /\ slaves[c] = <<>>
    /\ lock[DbLock] = Free
    /\ pc' = [pc EXCEPT ![c] = "wait_poll"]
    /\ slaves' = [slaves EXCEPT ![c] = slave_connections]
    /\ due' = IF wait[c].sent THEN due + replconf_getack_byte_len ELSE due
    /\ UNCHANGED <<streamVars, replicaVars, master_repl_offset, slave_connections, lock,
                   inbox, pending, cur, client_state, exec, wait, out, awaiting, nsent,
                   applied, sentlog, done, rcvd_bytes, acked, asked, answered>>
    /\ UNCHANGED <<codecVars, blockVars>>

\* line 132: the next stream of the clone is locked
WaitLock(c) ==
    /\ pc[c] = "wait_poll" /\ slaves[c] # <<>>
    /\ lock[Head(slaves[c])] = Free
    /\ lock' = [lock EXCEPT ![Head(slaves[c])] = c]
    /\ pc' = [pc EXCEPT ![c] = "wait_read"]
    /\ UNCHANGED <<streamVars, replicaVars, historyVars, master_repl_offset,
                   slave_connections, inbox, pending, cur, client_state, exec, slaves,
                   wait, out, awaiting, nsent>>
    /\ UNCHANGED <<codecVars, blockVars>>

\* lines 135-153: the read returns what the replica has written; one chunk
\* that holds an ACK counts once
WaitRead(c) ==
    /\ pc[c] = "wait_read"
    /\ LET t == Head(slaves[c])
           n == IF ContainsAck(inbox[t]) THEN wait[c].responding_slaves + 1
                ELSE wait[c].responding_slaves
           reached == ContainsAck(inbox[t]) /\ n >= wait[c].num_slaves
       IN  /\ inbox[t] # <<>>
           /\ inbox' = [inbox EXCEPT ![t] = <<>>]
           /\ lock' = [lock EXCEPT ![t] = Free]
           /\ wait' = [wait EXCEPT ![c].responding_slaves = n,
                                   ![c].result = IF reached THEN n ELSE None]
           /\ pc' = [pc EXCEPT ![c] = IF reached THEN "wait_reply" ELSE "wait_poll"]
           /\ slaves' = [slaves EXCEPT ![c] = IF reached THEN <<>> ELSE Tail(@)]
    /\ UNCHANGED <<streamVars, replicaVars, historyVars, master_repl_offset,
                   slave_connections, pending, cur, client_state, exec, out, awaiting,
                   nsent>>
    /\ UNCHANGED <<codecVars, blockVars>>

\* line 157: the clone is exhausted; sleep, then clone the registry again
WaitSleep(c) ==
    /\ pc[c] = "wait_poll" /\ slaves[c] = <<>>
    /\ lock[DbLock] = Free
    /\ slave_connections # <<>>
    /\ slaves' = [slaves EXCEPT ![c] = slave_connections]
    /\ UNCHANGED <<streamVars, replicaVars, historyVars, primaryVarsButSlaves>>
    /\ UNCHANGED <<codecVars, blockVars>>

\* the timeout elapses while the loop is suspended (on a lock, in a read or
\* in the sleep): the loop is dropped with the lock it holds
WaitTimeout(c) ==
    /\ IF pc[c] = "wait_poll"
       THEN (IF slaves[c] = <<>> THEN TRUE ELSE lock[Head(slaves[c])] # Free)
       ELSE pc[c] = "wait_read" /\ inbox[Head(slaves[c])] = <<>>
    /\ lock' = [t \in DOMAIN lock |-> IF pc[c] = "wait_read" /\ lock[t] = c /\ t # c
                                THEN Free ELSE lock[t]]
    /\ wait' = [wait EXCEPT ![c].result = None]
    /\ slaves' = [slaves EXCEPT ![c] = <<>>]
    /\ pc' = [pc EXCEPT ![c] = "wait_reply"]
    /\ UNCHANGED <<streamVars, replicaVars, historyVars, master_repl_offset,
                   slave_connections, inbox, pending, cur, client_state, exec, out,
                   awaiting, nsent>>
    /\ UNCHANGED <<codecVars, blockVars>>

\* lines 162-170: the count on success, 0 on timeout
wait_response(result) == IF result = None THEN ":0\r\n" ELSE ":" \o to_string(result) \o "\r\n"

WaitReply(c) ==
    /\ pc[c] = "wait_reply"
    /\ Replied(c, wait_response(wait[c].result))
    /\ chan' = IF c \in Replicas
               THEN [chan EXCEPT ![c] = Append(@, ReplyItem(wait_response(wait[c].result)))]
               ELSE chan
    /\ pc' = [pc EXCEPT ![c] = "after"]
    /\ done' = [done EXCEPT ![c].resp = wait_response(wait[c].result),
                            ![c].acks = acked[c]]
    /\ UNCHANGED <<streamVars, master_repl_offset, slave_connections, lock, inbox, pending,
                   cur, client_state, exec, slaves, wait, nsent, rdata, slave_repl_offset,
                   rstuck, rclient, handshake, applied, sentlog, rcvd_bytes, acked, due, asked,
                   answered>>
    /\ UNCHANGED <<codecVars, blockVars>>

\* lines 242-256: when a GETACK was written, master_repl_offset grows by its length
AfterWait(c) ==
    /\ pc[c] = "after"
    /\ lock[DbLock] = Free
    /\ master_repl_offset' = IF wait[c].sent
                             THEN master_repl_offset + replconf_getack_byte_len
                             ELSE master_repl_offset
    /\ done' = [done EXCEPT ![c].bump = IF wait[c].sent THEN replconf_getack_byte_len ELSE 0,
                            ![c].finished = TRUE]
    /\ wait' = [wait EXCEPT ![c] = NoWait]
    /\ pc' = [pc EXCEPT ![c] = "next"]
    /\ Drained(c)
    /\ UNCHANGED <<streamVars, replicaVars, slave_connections, lock, inbox, client_state,
                   exec, slaves, out, awaiting, nsent, applied, sentlog, rcvd_bytes,
                   acked, due, asked, answered>>
    /\ UNCHANGED <<codecVars, blockVars>>

(***************************************************************************)
(* The replica: what it does with the bytes the primary sends              *)
(* (process_commands_after_rdb, commands.rs) and with its own clients.     *)
(***************************************************************************)
ReplicaEnv(r) == [now |-> 0, checks |-> overflow_checks, soff |-> slave_repl_offset[r],
                  moff |-> 0]

\* lines 512-527: a SET is inserted once more, without its expiry
after_rdb_insert(db, command, args) ==
    IF command = "SET" /\ Len(args) >= 2
    THEN db_insert(db, args[1], RedisValue(StringToValueType(args[2]), None))
    ELSE db

\* lines 512-526: the verbs whose response the replica writes back to the
\* primary
writes_response_all(command) == command # ""

writes_response(command) == command = "REPLCONF"

\* what the replica writes back: the frame REPLCONF ACK <offset> in answer to
\* GETACK *; the +OK of another REPLCONF is no request frame (it is kept as a
\* request with the verb +)
Written_after(is_getack, soff) ==
    IF is_getack THEN AckFrame(soff + replconf_getack_byte_len) ELSE <<<<"+">>>>

Written(is_getack, soff) == IF is_getack THEN AckFrame(soff) ELSE <<<<"+">>>>

\* the replica takes what heads its connection: the +FULLRESYNC line and the
\* snapshot are discarded; a frame is parsed, which runs its handler and adds
\* its length to slave_repl_offset, and the reply of REPLCONF is written back;
\* bytes that are no frame stay at the head of the buffer for good
RepRecv(r) ==
    /\ chan[r] # <<>> /\ ~rstuck[r]
    /\ \E item \in {Head(chan[r])} :
       \E p \in {IF item.kind = "frame"
                 THEN parse_redis_message(item.frame, rdata[r], NoQueue, "slave",
                                          ReplicaEnv(r))
                 ELSE Parsed("", <<>>, "", 0, rdata[r], NoQueue)} :
       \E getack \in {p.command = "REPLCONF" /\ IsGetack(p.args)} :
           CASE item.kind = "sync" ->
                  /\ chan' = [chan EXCEPT ![r] = Tail(@)]
                  /\ UNCHANGED <<rdata, slave_repl_offset, rstuck, inbox, rcvd_bytes,
                                 acked, answered>>
             [] item.kind = "reply" ->
                  /\ rstuck' = [rstuck EXCEPT ![r] = TRUE]
                  /\ UNCHANGED <<chan, rdata, slave_repl_offset, inbox, rcvd_bytes,
                                 acked, answered>>
             [] item.kind = "frame" ->
                  /\ chan' = [chan EXCEPT ![r] = Tail(@)]
                  /\ rstuck' = [rstuck EXCEPT ![r] = p.panic]
                  /\ rdata' = [rdata EXCEPT ![r] =
                                  IF p.panic THEN @
                                  ELSE after_rdb_insert(p.db, p.command, p.args)]
                  /\ slave_repl_offset' = [slave_repl_offset EXCEPT ![r] =
                                              IF p.panic THEN @ ELSE @ + p.soff_add]
                  /\ rcvd_bytes' = [rcvd_bytes EXCEPT ![r] = @ + Len(Encode(item.frame))]
                  /\ inbox' = IF ~p.panic /\ writes_response(p.command)
                              THEN [inbox EXCEPT ![r] =
                                       Append(@, Written(getack, slave_repl_offset[r]))]
                              ELSE inbox
                  /\ acked' = IF getack
                              THEN [c \in Conns |-> IF pc[c] \in {"wait_poll", "wait_read"}
                                                    THEN acked[c] \cup {r} ELSE acked[c]]
                              ELSE acked
                  /\ answered' = IF getack
                                 THEN [answered EXCEPT ![r] =
                                          [offset |-> slave_repl_offset[r], open |-> @.open - 1]]
                                 ELSE answered
    /\ UNCHANGED <<streamVars, master_repl_offset, slave_connections, lock, pc, pending,
                   cur, client_state, exec, slaves, wait, out, awaiting, nsent, rclient, handshake,
                   applied, sentlog, done, due, asked>>
    /\ UNCHANGED <<codecVars, blockVars>>

\* an ordinary client of the replica sends it GET k, after the handshake
RepClientCmd(r) ==
    /\ rclient[r] < MaxRepClient
    /\ r \in Range(slave_connections)
    /\ \A i \in 1..Len(chan[r]) : chan[r][i].kind # "sync"
    /\ \E p \in {parse_redis_message(F_GET, rdata[r], NoQueue, "slave", ReplicaEnv(r))} :
           /\ rdata' = [rdata EXCEPT ![r] = p.db]
           /\ slave_repl_offset' = [slave_repl_offset EXCEPT ![r] = @ + p.soff_add]
    /\ rclient' = [rclient EXCEPT ![r] = @ + 1]
    /\ UNCHANGED <<streamVars, primaryVars, historyVars, chan, rstuck, handshake>>
    /\ UNCHANGED <<codecVars, blockVars>>

(***************************************************************************)
(* The primary with its sessions, and the replica.                         *)
(***************************************************************************)
Next ==
    \/ \E f \in Menu("c1") : ClientSend("c1", f, MaxCmds)
    \/ \E c \in TxConns : AcquireRead(c)
    \/ \E c \in TxConns : ReadData(c)
    \/ \E c \in TxConns : ReadTimeout(c)
    \/ \E c \in TxConns : Dispatch(c)
    \/ \E c \in TxConns : Respond(c)
    \/ \E c \in TxConns : RespondFullresync(c)
    \/ \E c \in TxConns : Register(c)
    \/ \E c \in TxConns : Forward(c)
    \/ \E c \in TxConns : OffsetInc(c)
    \/ \E c \in TxConns : RespondWait(c)
    \/ \E c \in TxConns : WaitSend(c)
    \/ \E c \in TxConns : WaitStart(c)
    \/ \E c \in TxConns : WaitLock(c)
    \/ \E c \in TxConns : WaitRead(c)
    \/ \E c \in TxConns : WaitSleep(c)
    \/ \E c \in TxConns : WaitTimeout(c)
    \/ \E c \in TxConns : WaitReply(c)
    \/ \E c \in TxConns : AfterWait(c)
    \/ \E r \in Replicas : RepRecv(r)
    \/ \E r \in Replicas : RepClientCmd(r)

Spec == Init /\ [][Next]_vars

(***************************************************************************)
(* One client with transactions, and the replica.                          *)
(***************************************************************************)
NextMulti ==
    \/ \E f \in MenuMulti(nsent["c1"] + 1) : ClientSend("c1", f, MaxTxCmds)
    \/ \E c \in TxConns : AcquireRead(c)
    \/ \E c \in TxConns : ReadData(c)
    \/ \E c \in TxConns : ReadTimeout(c)
    \/ \E c \in TxConns : Dispatch(c)
    \/ \E c \in TxConns : ExecStep(c)
    \/ \E c \in TxConns : ExecDone(c)
    \/ \E c \in TxConns : Respond(c)
    \/ \E c \in TxConns : RespondFullresync(c)
    \/ \E c \in TxConns : Register(c)
    \/ \E c \in TxConns : Forward(c)
    \/ \E c \in TxConns : OffsetInc(c)
    \/ \E c \in TxConns : RespondWait(c)
    \/ \E c \in TxConns : WaitSend(c)
    \/ \E c \in TxConns : WaitStart(c)
    \/ \E c \in TxConns : WaitLock(c)
    \/ \E c \in TxConns : WaitRead(c)
    \/ \E c \in TxConns : WaitSleep(c)
    \/ \E c \in TxConns : WaitTimeout(c)
    \/ \E c \in TxConns : WaitReply(c)
    \/ \E c \in TxConns : AfterWait(c)
    \/ \E r \in Replicas : RepRecv(r)

SpecMulti == Init /\ [][NextMulti]_vars

(***************************************************************************)
(* Two clients that write, and the replica.                                *)
(***************************************************************************)
NextOrder ==
    \/ \E c \in Clients : ClientSend(c, F_SET(IF c = "c1" THEN "1" ELSE "2"), MaxWrites)
    \/ \E c \in Conns : AcquireRead(c)
    \/ \E c \in Conns : ReadData(c)
    \/ \E c \in Conns : ReadTimeout(c)
    \/ \E c \in Conns : Dispatch(c)
    \/ \E c \in Conns : Respond(c)
    \/ \E c \in Conns : RespondFullresync(c)
    \/ \E c \in Conns : Register(c)
    \/ \E c \in Conns : Forward(c)
    \/ \E c \in Conns : OffsetInc(c)
    \/ \E r \in Replicas : RepRecv(r)

SpecOrder == Init /\ [][NextOrder]_vars

(***************************************************************************)
(* A client that runs one transaction, a client that writes the same key,  *)
(* and the replica.                                                        *)
(***************************************************************************)
\* the most requests the second client sends while the first runs a transaction
MaxOther == 1

\* the n-th request of the first client: MULTI, SET k 1, GET k, EXEC
ScriptAtomic(n) ==
    IF n = 1 THEN F_MULTI ELSE IF n = 2 THEN F_SET("1") ELSE IF n = 3 THEN F_GET ELSE F_EXEC

NextAtomic ==
    \/ ClientSend("c1", ScriptAtomic(nsent["c1"] + 1), MaxTxCmds)
    \/ ClientSend("c2", F_SET("2"), MaxOther)
    \/ \E c \in Conns : AcquireRead(c)
    \/ \E c \in Conns : ReadData(c)
    \/ \E c \in Conns : ReadTimeout(c)
    \/ \E c \in Conns : Dispatch(c)
    \/ \E c \in Conns : ExecStep(c)
    \/ \E c \in Conns : ExecDone(c)
    \/ \E c \in Conns : Respond(c)
    \/ \E c \in Conns : RespondFullresync(c)
    \/ \E c \in Conns : Register(c)
    \/ \E c \in Conns : Forward(c)
    \/ \E c \in Conns : OffsetInc(c)
    \/ \E r \in Replicas : RepRecv(r)

SpecAtomic == Init /\ [][NextAtomic]_vars

(***************************************************************************)
(* The bytes of a connection: get_end_of_redis_message (network.rs) and    *)
(* the cursor of parse_redis_message (parsing.rs) on a buffer of bytes.    *)
(***************************************************************************)
\* the panic of an index or a slice out of range
Oob == -2

RECURSIVE ParseNat(_, _)
ParseNat(s, acc) ==
    IF s = <<>> THEN acc
    ELSE IF Head(s) \notin DigitChars THEN None
    ELSE ParseNat(Tail(s), acc * 10 + DigitVal(Head(s)))

\* str::parse::<usize> on the short texts of a frame's counts and lengths
parse_usize(s) ==
    LET t == IF s # <<>> /\ Head(s) = "+" THEN Tail(s) ELSE s
    IN  IF t = <<>> THEN None ELSE ParseNat(t, 0)

IndexOf(s, c) == CHOOSE j \in 1..Len(s) : s[j] = c /\ \A k \in 1..(j - 1) : s[k] # c

\* str::lines: the pieces that end with \n, without the \n and without a \r
\* before it; what follows the last \n is a line as it is
RECURSIVE lines(_)
lines(s) ==
    IF s = <<>> THEN <<>>
    ELSE IF ~contains(s, "\n") THEN <<s>>
    ELSE LET i == IndexOf(s, "\n")
             raw == SubSeq(s, 1, i - 1)
             line == IF raw # <<>> /\ raw[Len(raw)] = "\r"
                     THEN SubSeq(raw, 1, Len(raw) - 1) ELSE raw
         IN  <<line>> \o lines(SubSeq(s, i + 1, Len(s)))

starts_with(s, c) == s # <<>> /\ Head(s) = c

\* lines 284-295: per announced argument the next line, counted when it is a
\* "$<len>" line, and then the line after it, whatever it holds
RECURSIVE EndLoop(_, _, _)
EndLoop(ls, n, total_len) ==
    IF n = 0 \/ ls = <<>> THEN total_len
    ELSE LET length_line == Head(ls)
         IN  IF starts_with(length_line, "$") /\ parse_usize(Tail(length_line)) # None
             THEN IF Tail(ls) # <<>>
                  THEN EndLoop(Tail(Tail(ls)), n - 1,
                               total_len + (Len(length_line) + 2) + (Len(ls[2]) + 2))
                  ELSE total_len + (Len(length_line) + 2)
             ELSE EndLoop(Tail(ls), n - 1, total_len)

\* get_end_of_redis_message on the bytes of partial_message: Some(total_len), or None
get_end_of_redis_message_bytes(message) ==
    LET ls == lines(message)
    IN  IF ls # <<>> /\ starts_with(Head(ls), "*") /\ parse_usize(Tail(Head(ls))) # None
        THEN EndLoop(Tail(ls), parse_usize(Tail(Head(ls))), Len(Head(ls)) + 2)
        ELSE None

\* bytes[from..], with from counted from 0
SliceFrom(bytes, from) == SubSeq(bytes, from + 1, Len(bytes))

\* bytes[from..to], with both counted from 0
Slice(bytes, from, to) == SubSeq(bytes, from + 1, to)

\* find_crlf: the loop is over 0..bytes.len() - 1, which panics on an empty slice
find_crlf(bytes) ==
    IF bytes = <<>> THEN Oob
    ELSE IF \E i \in 0..(Len(bytes) - 2) : bytes[i + 1] = "\r" /\ bytes[i + 2] = "\n"
    THEN CHOOSE i \in 0..(Len(bytes) - 2) :
             /\ bytes[i + 1] = "\r" /\ bytes[i + 2] = "\n"
             /\ \A j \in 0..(i - 1) : ~(bytes[j + 1] = "\r" /\ bytes[j + 2] = "\n")
    ELSE None

ERR_INCOMPLETE == "-ERR incomplete message\r\n"
ERR_ARG_COUNT == "-ERR invalid argument count\r\n"
ERR_BULK_LEN == "-ERR invalid bulk string length\r\n"
ERR_INCOMPLETE_BULK == "-ERR incomplete bulk string\r\n"
ERR_EXPECTED_BULK == "-ERR expected bulk string\r\n"
ERR_FORMAT == "-ERR invalid format\r\n"

\* what the loop over the bulk strings leaves: the cursor, the verb (has_command
\* tells whether there is one), the arguments, the error it pushed before it
\* broke off (or ""), and whether it panicked
Bulks(cursor, has_command, command, args, error, panic) ==
    [cursor |-> cursor, has_command |-> has_command, command |-> command, args |-> args,
     error |-> error, panic |-> panic]

\* lines 49-94: the loop over arg_count bulk strings; a break leaves this loop only
RECURSIVE ParseBulks(_, _, _, _, _, _)
ParseBulks(bytes, cursor, n, has_command, command, args) ==
    IF n = 0 THEN Bulks(cursor, has_command, command, args, "", FALSE)
    ELSE IF cursor >= Len(bytes) THEN Bulks(cursor, has_command, command, args, "", TRUE)
    ELSE IF bytes[cursor + 1] # "$"
    THEN Bulks(cursor, has_command, command, args, ERR_EXPECTED_BULK, FALSE)
    ELSE
    LET end == find_crlf(SliceFrom(bytes, cursor + 1))
    IN  IF end = Oob THEN Bulks(cursor, has_command, command, args, "", TRUE)
        ELSE IF end = None
        THEN Bulks(cursor + 1, has_command, command, args, ERR_INCOMPLETE, FALSE)
        ELSE
        LET bulk_len == parse_usize(Slice(bytes, cursor + 1, cursor + 1 + end))
            at == cursor + 1 + end + 2
        IN  IF bulk_len = None
            THEN Bulks(cursor + 1, has_command, command, args, ERR_BULK_LEN, FALSE)
            ELSE IF at + bulk_len + 2 <= Len(bytes)
            THEN LET bulk_string == Slice(bytes, at, at + bulk_len)
                 IN  IF ~has_command
                     THEN ParseBulks(bytes, at + bulk_len + 2, n - 1, TRUE,
                                     to_uppercase(bulk_string), args)
                     ELSE ParseBulks(bytes, at + bulk_len + 2, n - 1, TRUE, command,
                                     Append(args, bulk_string))
            ELSE Bulks(at, has_command, command, args, ERR_INCOMPLETE_BULK, FALSE)

\* a tuple that parse_redis_message pushes; command is "" for None
Tuple(command, args, response) == [command |-> command, args |-> args, response |-> response]

\* the state of the loop of parse_redis_message over message: the tuples
\* pushed, the database and the session's queue, and whether it panicked
RECURSIVE ParseMessage(_, _, _, _)

\* lines 96-186: the result p of the match on the verb that the bulk strings b
\* gave is pushed after the error of the bulk strings, and the loop goes on
\* where they ended
ParsePushed(bytes, env, acc, b, p) ==
    LET pushed == IF b.error = "" THEN acc.tuples
                  ELSE Append(acc.tuples, Tuple("", <<>>, b.error))
    IN  IF b.panic \/ p.panic THEN [acc EXCEPT !.tuples = pushed, !.panic = TRUE]
        ELSE ParseMessage(bytes, b.cursor, env,
                 [tuples |-> Append(pushed, Tuple(p.command, p.args, p.response)),
                  db |-> p.db, cs |-> p.cs, panic |-> FALSE])

\* lines 96-97: the verb and the arguments collected are matched, whatever
\* the loop over the bulk strings has pushed
ParseDispatch(bytes, env, acc, b) ==
    ParsePushed(bytes, env, acc, b,
                parse_redis_message(<<b.command>> \o b.args, acc.db, acc.cs, "master", env))

ParseMessage(bytes, cursor, env, acc) ==
    IF cursor >= Len(bytes) THEN acc
    ELSE IF bytes[cursor + 1] # "*"
    THEN [acc EXCEPT !.tuples = Append(@, Tuple("", <<>>, ERR_FORMAT))]
    ELSE
    LET end == find_crlf(SliceFrom(bytes, cursor + 1))
    IN  IF end = Oob THEN [acc EXCEPT !.panic = TRUE]
        ELSE IF end = None
        THEN [acc EXCEPT !.tuples = Append(@, Tuple("", <<>>, ERR_INCOMPLETE))]
        ELSE
        LET arg_count == parse_usize(Slice(bytes, cursor + 1, cursor + 1 + end))
        IN  IF arg_count = None
            THEN [acc EXCEPT !.tuples = Append(@, Tuple("", <<>>, ERR_ARG_COUNT))]
            ELSE ParseDispatch(bytes, env, acc,
                     ParseBulks(bytes, cursor + 1 + end + 2, arg_count, FALSE, <<>>, <<>>))

\* lines 77-261 of handle_client: while partial_message holds the end of a
\* message, the message is cut off (which panics when the end lies beyond the
\* buffer), parsed, its replies are written, master_repl_offset grows for the
\* verbs to forward, and the message is drained
RECURSIVE ProcessBuffer(_, _, _)

\* lines 86-260: the tuples of current_message are handled and it is drained
ProcessParsed(buffer, env, acc, message_end, parsed) ==
    LET forwarded == Cardinality({i \in 1..Len(parsed.tuples) :
                          should_forward_to_slaves(parsed.tuples[i].command)})
    IN  IF parsed.panic
        THEN [acc EXCEPT !.buffer = buffer, !.panic = TRUE, !.tuples = @ \o parsed.tuples]
        ELSE ProcessBuffer(SubSeq(buffer, message_end + 1, Len(buffer)), env,
                 [acc EXCEPT !.tuples = @ \o parsed.tuples, !.db = parsed.db,
                             !.cs = parsed.cs, !.moff = @ + forwarded * message_end])

\* lines 77-84: the message up to message_end is cut off and parsed
ProcessMessage(buffer, env, acc, message_end) ==
    IF message_end = None THEN [acc EXCEPT !.buffer = buffer]
    ELSE IF message_end > Len(buffer) THEN [acc EXCEPT !.buffer = buffer, !.panic = TRUE]
    ELSE ProcessParsed(buffer, env, acc, message_end,
             ParseMessage(SubSeq(buffer, 1, message_end), 0, env,
                 [tuples |-> <<>>, db |-> acc.db, cs |-> acc.cs, panic |-> FALSE]))

ProcessBuffer(buffer, env, acc) ==
    ProcessMessage(buffer, env, acc, get_end_of_redis_message_bytes(buffer))

\* the frames of the byte streams: requests whose arguments hold no line
\* break, and requests with an argument that holds \r\n
F_SETV(v) == <<<<"S", "E", "T">>, <<"k">>, v>>
F_ECHO(v) == <<<<"E", "C", "H", "O">>, v>>

PlainScripts == {<<F_GET>>, <<F_SET("1"), F_GET>>, <<F_ECHO(<<"h", "i">>)>>}

CrlfScripts == {<<F_SETV(<<"a", "\r", "\n">>), F_GET>>, <<F_ECHO(<<"\r", "\n">>)>>,
                <<F_ECHO(<<"\r", "\n", "b">>), F_GET>>}

RECURSIVE EncodeAll(_)
EncodeAll(frames) ==
    IF frames = <<>> THEN <<>> ELSE Encode(Head(frames)) \o EncodeAll(Tail(frames))

\* a client has connected and written its requests, one after the other
InitCodec ==
    /\ data = EmptyMap
    /\ overflow_checks = TRUE
    /\ xlog = <<>>
    /\ xlast = NoCall
    /\ InitPrimary /\ InitReplica /\ InitHistory /\ IdleBlock
    /\ script \in PlainScripts \cup CrlfScripts
    /\ wire = EncodeAll(script)
    /\ partial_message = <<>>
    /\ results = <<>>
    /\ crashed = FALSE
    /\ reads = 0

\* lines 54-261: the read returns the next k bytes, which are appended to
\* partial_message, and every message the buffer then holds is processed
CodecRead(k) ==
    /\ ~crashed /\ k \in 1..Len(wire)
    /\ \E r \in {ProcessBuffer(partial_message \o SubSeq(wire, 1, k), PrimaryEnv,
                     [buffer |-> <<>>, tuples |-> <<>>, db |-> data, cs |-> NoQueue,
                      moff |-> master_repl_offset, panic |-> FALSE])} :
           /\ partial_message' = r.buffer
           /\ results' = results \o r.tuples
           /\ crashed' = r.panic
           /\ data' = r.db
           /\ master_repl_offset' = r.moff
    /\ wire' = SubSeq(wire, k + 1, Len(wire))
    /\ reads' = reads + 1
    /\ UNCHANGED <<overflow_checks, xlog, xlast, slave_connections, lock, pc, inbox, pending,
                   cur, client_state, exec, slaves, wait, out, awaiting, nsent, replicaVars,
                   historyVars, script, blockVars>>

NextCodec == \E k \in 1..Len(wire) : CodecRead(k)

SpecCodec == InitCodec /\ [][NextCodec]_vars

(***************************************************************************)
(* The unframed-bytes specification: a client writes bytes that are no     *)
(* frame and then its requests.  The first element of script is the bytes  *)
(* written unframed, as a frame of one element.                            *)
(***************************************************************************)
\* the line PING\r\n of the integration test
BarePing == <<"P", "I", "N", "G", "\r", "\n">>

\* bytes that are no frame
RawBytes == {BarePing, <<"x", "\r", "\n">>, <<"+", "O", "K", "\r", "\n">>, <<"*", "x", "\r", "\n">>}

\* the requests written after them
RawFollowers == {<<>>, <<F_GET>>, <<F_ECHO(<<"h", "i">>)>>, <<F_SET("1"), F_GET>>}

InitRaw ==
    /\ data = EmptyMap
    /\ overflow_checks = TRUE
    /\ xlog = <<>>
    /\ xlast = NoCall
    /\ InitPrimary /\ InitReplica /\ InitHistory /\ IdleBlock
    /\ \E raw \in RawBytes : \E frames \in RawFollowers :
           /\ script = <<<<raw>>>> \o frames
           /\ wire = raw \o EncodeAll(frames)
    /\ partial_message = <<>>
    /\ results = <<>>
    /\ crashed = FALSE
    /\ reads = 0

SpecRaw == InitRaw /\ [][NextCodec]_vars

(***************************************************************************)
(* handle_xread (commands.rs).                                             *)
(***************************************************************************)
BLOCK == <<"B", "L", "O", "C", "K">>
STREAMS == <<"S", "T", "R", "E", "A", "M", "S">>

ERR_XREAD_TIMEOUT == "-ERR invalid blocking timeout\r\n"
ERR_XREAD_STREAMS == "-ERR missing 'STREAMS' argument\r\n"
ERR_XREAD_ARGS == "-ERR wrong number of arguments for 'xread' command\r\n"
EMPTY_ARRAY == "*0\r\n"

ERR_XREAD_TYPE(stream_key) == "-ERR key '" \o Join(stream_key) \o "' is not a stream\r\n"
ERR_XREAD_ID(start_id_str) == "-ERR invalid StreamID '" \o Join(start_id_str) \o "'\r\n"

\* lines 222-241: the head of the arguments: the blocking mode, where STREAMS
\* stands and the number of streams; or the error reply; or the panic of an
\* index beyond the arguments
XreadHead(is_blocking, wait_time_ms, args_start, num_streams, error, panic) ==
    [is_blocking |-> is_blocking, wait_time_ms |-> wait_time_ms, args_start |-> args_start,
     num_streams |-> num_streams, error |-> error, panic |-> panic]

XreadStreams(args, is_blocking, wait_time_ms, args_start) ==
    IF Len(args) < args_start + 1
    THEN XreadHead(is_blocking, wait_time_ms, args_start, 0, "", TRUE)
    ELSE IF to_uppercase(args[args_start + 1]) # STREAMS
    THEN XreadHead(is_blocking, wait_time_ms, args_start, 0, ERR_XREAD_STREAMS, FALSE)
    ELSE IF Len(args) < args_start + 3 \/ (Len(args) - (args_start + 1)) % 2 # 0
    THEN XreadHead(is_blocking, wait_time_ms, args_start, 0, ERR_XREAD_ARGS, FALSE)
    ELSE XreadHead(is_blocking, wait_time_ms, args_start,
                   (Len(args) - (args_start + 1)) \div 2, "", FALSE)

xread_head(args) ==
    IF args = <<>> THEN XreadHead(FALSE, 0, 0, 0, "", TRUE)
    ELSE IF to_uppercase(args[1]) = BLOCK
    THEN IF Len(args) < 2 THEN XreadHead(TRUE, 0, 2, 0, "", TRUE)
         ELSE IF parse_u64(args[2]) = None
         THEN XreadHead(TRUE, 0, 2, 0, ERR_XREAD_TIMEOUT, FALSE)
         ELSE XreadStreams(args, TRUE, parse_u64(args[2]), 2)
    ELSE XreadStreams(args, FALSE, 0, 0)

\* the identifiers of a set in ascending order
RECURSIVE Ascending(_)
Ascending(ids) ==
    IF ids = {} THEN <<>>
    ELSE LET m == CHOOSE x \in ids : \A y \in ids : y = x \/ IdLess(x, y)
         IN  <<m>> \o Ascending(ids \ {m})

\* lines 289-293: stream.range(start_id..), of which only the identifiers
\* that are valid after start_id are collected
xread_collect_range(stream, start_id) ==
    Ascending({id \in DOMAIN stream : ~IdLess(id, start_id)})

xread_collect(stream, start_id) ==
    Ascending({id \in DOMAIN stream : ~IdLess(id, start_id) /\ is_valid(id, start_id)})

\* the fields of an entry, in the order the HashMap yields them
RECURSIVE FieldsText(_, _)
FieldsText(entry, fields) ==
    IF fields = {} THEN ""
    ELSE LET f == CHOOSE x \in fields : TRUE
         IN  BulkOfText(Join(f)) \o BulkOfText(Join(entry[f]))
                 \o FieldsText(entry, fields \ {f})

\* lines 295-311: the array of one entry
RECURSIVE EntriesText(_, _)
EntriesText(stream, ids) ==
    IF ids = <<>> THEN ""
    ELSE "*2\r\n" \o BulkOfText(IdText(Head(ids)))
             \o "*" \o to_string(Cardinality(DOMAIN stream[Head(ids)]) * 2) \o "\r\n"
             \o FieldsText(stream[Head(ids)], DOMAIN stream[Head(ids)])
             \o EntriesText(stream, Tail(ids))

\* lines 253-323: the body of the loop for one listed key, under the database
\* lock: the key is skipped, or the call returns an error, or the entries
\* after the start identifier are collected (ids) and, when there are any,
\* formatted (text)
XreadKey(kind, ids, text) == [kind |-> kind, ids |-> ids, text |-> text]

xread_key(db, stream_key, start_id_str) ==
    IF ~db_has(db, stream_key) THEN XreadKey("skip", <<>>, "")
    ELSE IF ~IsStream(db, stream_key) THEN XreadKey("err", <<>>, ERR_XREAD_TYPE(stream_key))
    ELSE
    LET stream == db[stream_key].value.v
    IN  IF start_id_str # <<"$">> /\ ~from_str_ok(start_id_str)
        THEN XreadKey("err", <<>>, ERR_XREAD_ID(start_id_str))
        ELSE
        LET start_id == IF start_id_str = <<"$">>
                        THEN (IF stream = EmptyMap THEN zero ELSE MaxId(stream))
                        ELSE from_str(start_id_str)
            ids == xread_collect(stream, start_id)
        IN  IF ids = <<>> THEN XreadKey("none", <<>>, "")
            ELSE XreadKey("some", ids,
                          "*2\r\n" \o BulkOfText(Join(stream_key))
                              \o "*" \o to_string(Len(ids)) \o "\r\n"
                              \o EntriesText(stream, ids))

\* lines 326-336: what a pass over the keys returns, None when it goes on
xread_pass_end(total_streams_with_entries, streams_data) ==
    "*" \o to_string(total_streams_with_entries) \o "\r\n" \o streams_data

\* one pass over the listed keys from the i-th on, on one state of the
\* database: the reply, and per listed key the identifiers collected
RECURSIVE xread_pass(_, _, _, _, _)
xread_pass(db, args, head, i, acc) ==
    IF i > head.num_streams
    THEN [acc EXCEPT !.resp = IF acc.total > 0 THEN xread_pass_end(acc.total, acc.data)
                              ELSE EMPTY_ARRAY]
    ELSE LET k == xread_key(db, args[head.args_start + 1 + i],
                            args[head.args_start + 1 + head.num_streams + i])
         IN  IF k.kind = "err" THEN [acc EXCEPT !.resp = k.text, !.failed = TRUE]
             ELSE xread_pass(db, args, head, i + 1,
                      [acc EXCEPT !.total = IF k.kind = "some" THEN @ + 1 ELSE @,
                                  !.data = @ \o k.text,
                                  !.picked = Append(@, k.ids)])

\* handle_xread without BLOCK, when no other session runs in between
handle_xread(db, args) ==
    LET head == xread_head(args)
    IN  IF head.panic THEN [resp |-> "", picked |-> <<>>, panic |-> TRUE, failed |-> TRUE]
        ELSE IF head.error # ""
        THEN [resp |-> head.error, picked |-> <<>>, panic |-> FALSE, failed |-> TRUE]
        ELSE LET r == xread_pass(db, args, head, 1,
                          [resp |-> "", total |-> 0, data |-> "", picked |-> <<>>,
                           failed |-> FALSE])
             IN  [resp |-> r.resp, picked |-> r.picked, panic |-> FALSE,
                  failed |-> r.failed]

(***************************************************************************)
(* The XREAD specification: XREAD without BLOCK on a keyspace with two     *)
(* keys, each absent or a stream (the first also a string).                *)
(***************************************************************************)
OtherKey == <<"t">>

\* the identifiers XADD can have stored
StoredIds == {StreamID(ms, seq) : ms \in 0..MaxMs, seq \in {0, 1}} \ {zero}

\* the identifiers the second key can hold
OtherIds == {StreamID(0, 1), StreamID(1, 0)}

\* the identifiers a client may give for the second key
OtherReadIds == {<<"0", "-", "0">>, <<"0", "-", "1">>, <<"$">>}

TheEntry == [f \in {<<"f">>} |-> <<"v">>]

\* the keyspace whose two keys hold the streams with the identifiers S and T
\* (no key for an empty set); the first key holds a string when str
DbOf(S, T, str) ==
    [k \in {x \in {StreamKey, OtherKey} : str \/ (IF x = StreamKey THEN S ELSE T) # {}} \
            (IF T = {} THEN {OtherKey} ELSE {}) |->
        IF k = StreamKey
        THEN (IF str THEN RedisValue(StringToValueType(<<"v">>), None)
              ELSE RedisValue(StreamToValueType([id \in S |-> TheEntry]), None))
        ELSE RedisValue(StreamToValueType([id \in T |-> TheEntry]), None)]

\* the identifiers a client may give
ReadIds == {to_chars(ms) \o <<"-">> \o to_chars(seq) : ms \in 0..MaxMs, seq \in {0, 1}}
               \cup {<<"$">>, <<"x">>}

InitXread ==
    /\ \E S \in SUBSET StoredIds : \E T \in SUBSET OtherIds :
           \/ data = DbOf(S, T, FALSE)
           \/ S = {} /\ data = DbOf(S, T, TRUE)
    /\ overflow_checks = TRUE
    /\ xlog = <<>>
    /\ xlast = NoCall
    /\ InitPrimary /\ InitReplica /\ InitHistory /\ IdleCodec /\ IdleBlock

\* a session's XREAD STREAMS keys ids: the handler runs to its end
XRead(keys, ids) ==
    /\ xlast = NoCall
    /\ \E r \in {handle_xread(data, <<STREAMS>> \o keys \o ids)} :
           xlast' = [args |-> <<STREAMS>> \o keys \o ids, resp |-> r.resp,
                     panic |-> r.panic, picked |-> r.picked, failed |-> r.failed]
    /\ UNCHANGED <<data, overflow_checks, xlog, primaryVars, replicaVars, historyVars,
                   codecVars, blockVars>>

NextXread ==
    \/ \E id \in ReadIds : XRead(<<StreamKey>>, <<id>>)
    \/ \E id \in OtherReadIds : XRead(<<OtherKey>>, <<id>>)
    \/ \E id1 \in ReadIds : \E id2 \in OtherReadIds :
           XRead(<<StreamKey, OtherKey>>, <<id1, id2>>)
    \/ \E id1 \in ReadIds : \E id2 \in OtherReadIds :
           XRead(<<OtherKey, StreamKey>>, <<id2, id1>>)

SpecXread == InitXread /\ [][NextXread]_vars

(***************************************************************************)
(* handle_xrange (commands.rs), and the XRANGE specification: one XRANGE   *)
(* on the keyspaces of the XREAD specification.                            *)
(***************************************************************************)
ERR_XRANGE_ARGS == "-ERR wrong number of arguments for 'xrange' command\r\n"
ERR_XRANGE_KEY == "-ERR no such key\r\n"
ERR_XRANGE_TYPE == "-ERR wrong type for 'xrange' command\r\n"
ERR_XRANGE_START == "-ERR invalid start StreamID\r\n"
ERR_XRANGE_END == "-ERR invalid end StreamID\r\n"

\* lines 186-215: the entries of stream.range(start_id..=end_id), which
\* panics when start_id is greater than end_id
xrange_collect(db, stream, start_id, end_id) ==
    IF IdLess(end_id, start_id) THEN Panic(db)
    ELSE IF {id \in DOMAIN stream : ~IdLess(id, start_id) /\ ~IdLess(end_id, id)} = {}
    THEN Result(db, EMPTY_ARRAY)
    ELSE Result(db,
             "*" \o to_string(Cardinality({id \in DOMAIN stream :
                                  ~IdLess(id, start_id) /\ ~IdLess(end_id, id)}))
                 \o "\r\n"
                 \o EntriesText(stream, Ascending({id \in DOMAIN stream :
                                            ~IdLess(id, start_id) /\ ~IdLess(end_id, id)})))

handle_xrange(db, args) ==
    IF Len(args) < 3 THEN Result(db, ERR_XRANGE_ARGS)
    ELSE IF ~db_has(db, args[1]) THEN Result(db, ERR_XRANGE_KEY)
    ELSE IF ~IsStream(db, args[1]) THEN Result(db, ERR_XRANGE_TYPE)
    ELSE IF args[2] # <<"-">> /\ ~from_str_ok(args[2]) THEN Result(db, ERR_XRANGE_START)
    ELSE IF args[3] # <<"+">> /\ ~from_str_ok(args[3]) THEN Result(db, ERR_XRANGE_END)
    ELSE xrange_collect(db, db[args[1]].value.v,
             IF args[2] = <<"-">> THEN zero ELSE from_str(args[2]),
             IF args[3] = <<"+">> THEN StreamID(U64Max, U64Max) ELSE from_str(args[3]))

\* the bounds a client may give
RangeIds == {<<"-">>, <<"+">>, <<"0", "-", "1">>, <<"1", "-", "0">>, <<"1", "-", "1">>}

\* a session's XRANGE key start end: the handler runs under the database lock
XRange(key, start, end) ==
    /\ xlast = NoCall
    /\ \E r \in {handle_xrange(data, <<key, start, end>>)} :
           xlast' = [args |-> <<key, start, end>>, resp |-> r.resp, panic |-> r.panic,
                     verb |-> "XRANGE"]
    /\ UNCHANGED <<data, overflow_checks, xlog, primaryVars, replicaVars, historyVars,
                   codecVars, blockVars>>

NextXrange ==
    \E key \in {StreamKey, OtherKey} : \E start \in RangeIds : \E end \in RangeIds :
        XRange(key, start, end)

SpecXrange == InitXread /\ [][NextXrange]_vars

(***************************************************************************)
(* handle_xread step by step (commands.rs 250-358): the database is locked *)
(* for one key at a time and is free while the task sleeps.                *)
(***************************************************************************)
\* handle_xread returns: parse_redis_message pushes the reply
XreadReturn(c, response) ==
    /\ cur' = [cur EXCEPT ![c] = [command |-> "XREAD", args |-> Tail(Head(pending[c])),
                                  response |-> response]]
    /\ pc' = [pc EXCEPT ![c] = "respond"]

\* lines 222-241: the arguments are taken apart
XreadBegin(c) ==
    /\ XreadNext(c)
    /\ \E head \in {xread_head(Tail(Head(pending[c])))} :
         /\ xread' = [xread EXCEPT ![c] =
                         [args |-> Tail(Head(pending[c])), is_blocking |-> head.is_blocking,
                          wait_time_ms |-> head.wait_time_ms,
                          args_start |-> head.args_start, num_streams |-> head.num_streams,
                          i |-> 1, total_streams_with_entries |-> 0, streams_data |-> ""]]
         /\ IF head.panic
            THEN pc' = [pc EXCEPT ![c] = "dead"] /\ UNCHANGED cur
            ELSE IF head.error # "" THEN XreadReturn(c, head.error)
            ELSE pc' = [pc EXCEPT ![c] = "xread_key"] /\ UNCHANGED cur
    /\ xhist' = [xhist EXCEPT ![c] = NoXhist]
    /\ done' = [done EXCEPT ![c] = [NoDone EXCEPT !.n = nsent[c], !.command = "XREAD",
                                       !.args = Tail(Head(pending[c])),
                                       !.cs0 = client_state[c], !.db0 = data,
                                       !.discard = done[c].discard]]
    /\ UNCHANGED <<streamVars, replicaVars, codecVars, gone, master_repl_offset,
                   slave_connections, lock, inbox, pending, client_state, exec, slaves,
                   wait, out, awaiting, nsent, applied, sentlog, rcvd_bytes, acked, due,
                   asked, answered>>

\* lines 252-336: the i-th key of a pass under the database lock; after the
\* last key the pass returns what it collected, or sleeps
XreadKeyStep(c) ==
    /\ pc[c] = "xread_key"
    /\ \E x \in {xread[c]} :
       \E k \in {xread_key(data, x.args[x.args_start + 1 + x.i],
                           x.args[x.args_start + 1 + x.num_streams + x.i])} :
       \E total \in {x.total_streams_with_entries + IF k.kind = "some" THEN 1 ELSE 0} :
         /\ xhist' = [xhist EXCEPT ![c] = [@ EXCEPT !.started = TRUE,
                                              !.base = IF xhist[c].started THEN @ ELSE data,
                                              !.seen = data]]
         /\ IF k.kind = "err"
            THEN XreadReturn(c, k.text) /\ UNCHANGED xread
            ELSE IF x.i < x.num_streams
            THEN /\ xread' = [xread EXCEPT ![c].i = @ + 1,
                                           ![c].total_streams_with_entries = total,
                                           ![c].streams_data = @ \o k.text]
                 /\ UNCHANGED <<pc, cur>>
            ELSE IF total > 0
            THEN XreadReturn(c, xread_pass_end(total, x.streams_data \o k.text))
                    /\ UNCHANGED xread
            ELSE IF ~x.is_blocking
            THEN XreadReturn(c, EMPTY_ARRAY) /\ UNCHANGED xread
            ELSE /\ xread' = [xread EXCEPT ![c].i = 1]
                 /\ pc' = [pc EXCEPT ![c] = "xread_sleep"]
                 /\ UNCHANGED cur
    /\ UNCHANGED <<streamVars, replicaVars, historyVars, codecVars, gone,
                   master_repl_offset, slave_connections, lock, inbox, pending,
                   client_state, exec, slaves, wait, out, awaiting, nsent>>

\* line 339: the sleep of one millisecond is over, the next pass begins
XreadWake(c) ==
    /\ pc[c] = "xread_sleep"
    /\ pc' = [pc EXCEPT ![c] = "xread_key"]
    /\ UNCHANGED <<streamVars, replicaVars, historyVars, codecVars, blockVars,
                   master_repl_offset, slave_connections, lock, inbox, pending, cur,
                   client_state, exec, slaves, wait, out, awaiting, nsent>>

\* lines 349-353: the timeout of BLOCK ms, ms > 0, fires while the task sleeps
XreadTimeout(c) ==
    /\ pc[c] = "xread_sleep"
    /\ xread[c].is_blocking /\ xread[c].wait_time_ms # 0
    /\ XreadReturn(c, NullBulk)
    /\ xhist' = [xhist EXCEPT ![c].at_deadline = data]
    /\ UNCHANGED <<streamVars, replicaVars, historyVars, codecVars, xread, gone,
                   master_repl_offset, slave_connections, lock, inbox, pending,
                   client_state, exec, slaves, wait, out, awaiting, nsent>>

\* a client closes its connection
ClientGone(c) ==
    /\ ~gone[c]
    /\ gone' = [gone EXCEPT ![c] = TRUE]
    /\ UNCHANGED <<streamVars, primaryVars, replicaVars, historyVars, codecVars, xread,
                   xhist>>

\* network.rs 63-70: the read returns 0 bytes, the peer has closed; the task
\* returns
ReadClosed(c) ==
    /\ pc[c] = "reading" /\ inbox[c] = <<>> /\ gone[c]
    /\ lock' = [lock EXCEPT ![c] = Free]
    /\ pc' = [pc EXCEPT ![c] = "closed"]
    /\ UNCHANGED <<streamVars, replicaVars, historyVars, codecVars, blockVars,
                   master_repl_offset, slave_connections, inbox, pending, cur,
                   client_state, exec, slaves, wait, out, awaiting, nsent>>

(***************************************************************************)
(* The blocking specification: one client sends an XREAD BLOCK on the      *)
(* stream key, another XADDs to it, and either may close its connection.   *)
(***************************************************************************)
MaxAdds == 2

F_XREAD(ms, id) ==
    <<<<"X", "R", "E", "A", "D">>, <<"b", "l", "o", "c", "k">>, ms,
      <<"s", "t", "r", "e", "a", "m", "s">>, StreamKey, id>>

F_XADD_AT(seq) == <<<<"X", "A", "D", "D">>, StreamKey, <<"1", "-", seq>>, <<"f">>, <<"v">>>>

\* the steps of the session task of connection c
SessionStep(c) ==
    \/ AcquireRead(c)
    \/ ReadData(c)
    \/ ReadClosed(c)
    \/ Dispatch(c)
    \/ Respond(c)
    \/ XreadBegin(c)
    \/ XreadKeyStep(c)
    \/ XreadWake(c)

NextBlock ==
    \/ \E ms \in {<<"0">>, <<"1">>} : \E id \in {<<"$">>, <<"0", "-", "0">>, <<"1", "-", "1">>} :
           ClientSend("c1", F_XREAD(ms, id), 1)
    \/ \E seq \in {"1", "2"} : ClientSend("c2", F_XADD_AT(seq), MaxAdds)
    \/ \E c \in Clients : ClientGone(c)
    \/ \E c \in Clients : SessionStep(c)
    \/ \E c \in Clients : XreadTimeout(c)

SpecBlock == Init /\ [][NextBlock]_vars

(***************************************************************************)
(* The cancellation specification: one client sends an XREAD BLOCK on the  *)
(* stream key, another an ECHO, and either may close its connection.  The  *)
(* scheduler runs every task that can take a step, and the timer of a      *)
(* timeout fires.                                                          *)
(***************************************************************************)
NextCancel ==
    \/ \E ms \in {<<"0">>, <<"1">>} : \E id \in {<<"$">>, <<"0", "-", "0">>} :
           ClientSend("c1", F_XREAD(ms, id), 1)
    \/ ClientSend("c2", F_ECHO(<<"h">>), 1)
    \/ \E c \in Clients : ClientGone(c)
    \/ \E c \in Clients : SessionStep(c)
    \/ \E c \in Clients : XreadTimeout(c)

SpecCancel ==
    /\ Init /\ [][NextCancel]_vars
    /\ \A c \in Clients : WF_vars(SessionStep(c)) /\ SF_vars(XreadTimeout(c))

(***************************************************************************)
(* The stream specification: XADD calls on one stream key, with SET and    *)
(* GET on the same key (the only handlers that replace or remove a value). *)
(***************************************************************************)
\* the identifiers a client may give: every ms-seq and ms-* within the width,
\* "*", and texts that are no identifier
FullIds == {to_chars(a) \o <<"-">> \o to_chars(b) : a \in 0..MaxMs, b \in 0..U64Max}
PartialIds == {to_chars(a) \o <<"-", "*">> : a \in 0..MaxMs}
BadIds == {<<"x">>, <<"1">>, <<"x", "-", "*">>, <<"1", "-", "1", "-", "1">>,
           to_chars(U64Max + 1) \o <<"-", "0">>}
IdStrings == FullIds \cup PartialIds \cup BadIds \cup {<<"*">>}

InitStream ==
    /\ data = EmptyMap
    /\ overflow_checks \in BOOLEAN
    /\ xlog = <<>>
    /\ xlast = NoCall
    /\ InitPrimary /\ InitReplica /\ InitHistory /\ IdleCodec /\ IdleBlock

\* whether the last call was an XADD with the id "*" that succeeded on a key
\* without entries
FirstStar ==
    /\ xlast.args # <<>> /\ xlast.args[1] = StreamKey /\ xlast.args[2] = <<"*">>
    /\ ~db_has(xlast.db0, StreamKey)
    /\ ~xlast.panic /\ IsStream(data, StreamKey)

\* a session's XADD: the handler runs under the database lock (now is the
\* reading of the clock, db0 the keyspace the call found, after_star whether
\* the call before it was the first XADD * of the stream)
XAdd(id_str, now) ==
    /\ Len(xlog) < MaxXlog
    /\ \E args \in {<<StreamKey, id_str, <<"f">>, <<"v">>>>} :
       \E r \in {handle_xadd(data, args, now, overflow_checks)} :
           /\ data' = r.db
           /\ xlog' = IF ~r.panic /\ r.db # data
                      THEN Append(xlog, MaxId(r.db[StreamKey].value.v)) ELSE xlog
           /\ xlast' = [args |-> args, resp |-> r.resp, panic |-> r.panic, now |-> now,
                        db0 |-> data, after_star |-> FirstStar]
    /\ UNCHANGED <<overflow_checks, primaryVars, replicaVars, historyVars>>
    /\ UNCHANGED <<codecVars, blockVars>>

\* SET on the stream key: the stream, if any, is replaced by a string
XSet(px) ==
    LET args == IF px = None THEN <<StreamKey, <<"v">>>>
                ELSE <<StreamKey, <<"v">>, PX, to_chars(px)>>
        r == handle_set(data, args)
    IN  /\ data' = r.db
        /\ xlog' = <<>>
        /\ xlast' = NoCall
        /\ UNCHANGED <<overflow_checks, primaryVars, replicaVars, historyVars>>
        /\ UNCHANGED <<codecVars, blockVars>>

\* GET on the stream key: an expired value is removed
XGet ==
    LET r == handle_get(data, <<StreamKey>>)
    IN  /\ data' = r.db
        /\ xlog' = IF r.db = data THEN xlog ELSE <<>>
        /\ xlast' = NoCall
        /\ UNCHANGED <<overflow_checks, primaryVars, replicaVars, historyVars>>
        /\ UNCHANGED <<codecVars, blockVars>>

NextStream ==
    \/ \E id_str \in IdStrings :
         \E now \in (IF id_str = <<"*">> THEN 0..MaxMs ELSE {0}) : XAdd(id_str, now)
    \/ \E px \in {None, 0} : XSet(px)
    \/ XGet

SpecStream == InitStream /\ [][NextStream]_vars

(***************************************************************************)
(* Claims.                                                                 *)
(***************************************************************************)
\* the stream at the stream key, empty when there is none
StreamAt(db) == IF IsStream(db, StreamKey) THEN db[StreamKey].value.v ELSE EmptyMap

\* C1: the identifiers returned by the successful XADDs on a stream are
\* strictly increasing in the (ms, seq) order, those returned are those
\* stored, and the identifier (0,0) is never stored in a stream.
C1_XaddIdsIncrease ==
    /\ \A i \in 1..Len(xlog) : \A j \in 1..Len(xlog) : i < j => IdLess(xlog[i], xlog[j])
    /\ {xlog[i] : i \in 1..Len(xlog)} = DOMAIN StreamAt(data)
    /\ zero \notin DOMAIN StreamAt(data)

\* three XADDs have succeeded on the stream, one of them with a generated
\* sequence number at the time of an earlier entry
C1_Witness ==
    /\ Len(xlog) = 3
    /\ xlog[1].milliseconds_time = xlog[2].milliseconds_time
    /\ xlast.args # <<>> /\ xlast.args[2] = <<"*">>

(***************************************************************************)
(* Replication, WAIT and transactions: the claims.                         *)
(***************************************************************************)
Pos(seq, x) == CHOOSE i \in 1..Len(seq) : seq[i] = x

\* no session is in the middle of a request
Quiescent == \A c \in Conns : pc[c] \in {"next", "reading", "closed"} /\ pending[c] = <<>>

IntReply(n) == ":" \o to_string(n) \o "\r\n"

\* a WAIT with two arguments whose reply was written
WaitOver(c) == done[c].command = "WAIT" /\ done[c].finished /\ Len(done[c].args) = 2

\* C2: on the primary, the raw frame of a dispatched command is handed to
\* every registered replica if and only if its verb is a write verb (SET, DEL,
\* INCR, XADD); read-only verbs are never propagated.
C2_ForwardIffWriteVerb ==
    \A c \in Clients :
        (done[c].finished /\ done[c].command # "")
            => \A r \in Range(done[c].regs) :
                   r \in done[c].handed <=> should_forward_to_slaves_spec(done[c].command)

\* C3: every replica observes the propagated writes in the order in which
\* the primary applied them, whether they come from one client or from two.
C3_ReplicaSeesApplyOrder ==
    \A r \in Replicas : \A i \in 1..Len(sentlog[r]) : \A j \in 1..Len(sentlog[r]) :
        (i < j /\ sentlog[r][i] \in Range(applied) /\ sentlog[r][j] \in Range(applied))
            => Pos(applied, sentlog[r][i]) < Pos(applied, sentlog[r][j])

\* C4: whenever no request is in progress, master_repl_offset equals the sum
\* of the byte lengths of the accepted write frames and of the GETACK
\* broadcasts, each counted once.
C4_MasterOffsetIsBytesFannedOut == Quiescent => master_repl_offset = due

\* C5: a replica's slave_repl_offset equals the total byte length of the
\* command frames it received from the primary since the handshake; nothing
\* else changes it, in particular no command of the replica's own clients.
C5_SlaveOffsetIsBytesReceived ==
    \A r \in Replicas : slave_repl_offset[r] = rcvd_bytes[r]

\* C6: at steady state (no request in progress, nothing in flight to the
\* replica, every GETACK answered) the offset the replica reported equals
\* master_repl_offset as it stood when the replica was asked.
C6_SteadyStateOffsetsAgree ==
    \A r \in Replicas :
        (Quiescent /\ chan[r] = <<>> /\ ~rstuck[r] /\ answered[r].open = 0
                   /\ answered[r].offset # None)
            => answered[r].offset = asked[r]

\* C7: in every outcome of WAIT the integer of the reply is the number of
\* replicas whose ACK arrived after the GETACK broadcast and before the reply.
C7_WaitReplyCountsAcks ==
    \A c \in Clients : WaitOver(c) => done[c].resp = IntReply(Cardinality(done[c].acks))

\* C8: when n replicas are registered and each of them answered the GETACK
\* before the deadline, WAIT n issued after a write replies with n.
C8_WaitReachesAllAcked ==
    \A c \in Clients :
        (/\ WaitOver(c)
         /\ applied # <<>>
         /\ done[c].regs # <<>>
         /\ parse_or_zero(done[c].args[1]) = Len(done[c].regs)
         /\ done[c].acks = Range(done[c].regs))
            => done[c].resp = IntReply(Len(done[c].regs))

\* C9: a WAIT is bounded by its deadline: from its dispatch to its reply the
\* session never waits for an event that the deadline does not cut short, so
\* that the reply is sent once the deadline has elapsed.
C9_WaitBoundedByDeadline ==
    \A c \in Clients :
        /\ (pc[c] = "wait_send" /\ slaves[c] # <<>>) => lock[Head(slaves[c])] = Free
        /\ pc[c] = "wait_reply" => lock[c] = Free

\* C10: after MULTI every verb other than EXEC, DISCARD and MULTI is answered
\* +QUEUED and is not executed: it changes neither the keyspace nor the
\* replication offset, and nothing is sent to the replicas.
C10_QueuedHasNoEffect ==
    \A c \in Clients :
        (/\ done[c].finished
         /\ done[c].intx
         /\ done[c].command \notin {"MULTI", "EXEC", "DISCARD"})
            => /\ done[c].resp = QUEUED
               /\ ~done[c].mutated
               /\ ~done[c].fanned /\ done[c].handed = {}
               /\ done[c].bump = 0

(***************************************************************************)
(* Transactions: the claims about EXEC and DISCARD.                        *)
(***************************************************************************)
\* the replies the commands of a queue produce when they are run one after
\* the other on the keyspace db
RECURSIVE RunQueue(_, _, _)
RunQueue(queue, db, env) ==
    IF queue = <<>> THEN <<>>
    ELSE LET r == Execute(Head(queue)[1], Head(queue)[2], db, env)
         IN  <<r.resp>> \o RunQueue(Tail(queue), r.db, env)

RECURSIVE Concat(_)
Concat(texts) == IF texts = <<>> THEN "" ELSE Head(texts) \o Concat(Tail(texts))

\* the array *N\r\n followed by the N replies
ArrayOfReplies(replies) == "*" \o to_string(Len(replies)) \o "\r\n" \o Concat(replies)

TxErrors == {ERR_MULTI, ERR_EXEC, ERR_DISCARD}

\* C11: EXEC in a transaction runs the queued commands once each in the
\* order they were queued and replies with the array of N elements whose i-th
\* element is the reply of the i-th queued command; afterwards the session is
\* in no transaction and its queue is empty.
C11_ExecRepliesInOrder ==
    \A c \in Clients :
        (done[c].command = "EXEC" /\ done[c].intx /\ done[c].finished)
            => /\ done[c].resp =
                      ArrayOfReplies(RunQueue(done[c].cs0.queue, done[c].db0, PrimaryEnv))
               /\ client_state[c] = NoQueue

\* C13: DISCARD in a transaction replies +OK, empties the queue and ends the
\* transaction; the dropped commands leave the keyspace as it was, and an EXEC
\* that follows without a new MULTI is answered with the error.
C13_DiscardDropsQueue ==
    \A c \in Clients :
        /\ (done[c].command = "DISCARD" /\ done[c].intx)
               => /\ client_state[c] = NoQueue
                  /\ done[c].finished => done[c].resp = OK
        /\ (done[c].discard.clean /\ done[c].discard.queue # <<>>)
               => data = done[c].discard.db
        /\ (done[c].command = "EXEC" /\ done[c].discard.open /\ done[c].finished)
               => done[c].resp = ERR_EXEC

\* a SET was queued and dropped, and the EXEC after it was answered
C13_Witness ==
    /\ done["c1"].command = "EXEC" /\ done["c1"].finished
    /\ done["c1"].discard.open
    /\ \E i \in 1..Len(done["c1"].discard.queue) : done["c1"].discard.queue[i][1] = "SET"
    /\ ~db_has(data, <<"k">>)

\* C14: MULTI within a transaction, EXEC outside one and DISCARD outside one
\* are answered with an error and leave the session's transaction state, its
\* queue and the keyspace as they were.
C14_TxErrorsChangeNothing ==
    \A c \in Clients :
        (\/ done[c].command = "MULTI" /\ done[c].intx
         \/ done[c].command \in {"EXEC", "DISCARD"} /\ ~done[c].intx)
            => /\ client_state[c] = done[c].cs0
               /\ ~done[c].mutated
               /\ ~done[c].fanned /\ done[c].bump = 0
               /\ done[c].finished => done[c].resp \in TxErrors

\* a second MULTI was answered while a SET was queued
C14_Witness ==
    /\ done["c1"].command = "MULTI" /\ done["c1"].intx /\ done["c1"].finished
    /\ done["c1"].cs0.queue # <<>>
    /\ done["c1"].resp = ERR_MULTI

\* C12: the queued commands of one EXEC run atomically: between the first
\* and the last of them no other session changes the keyspace.
C12_ExecIsAtomic ==
    [][\A c \in Clients :
          (pc[c] = "exec" /\ exec[c].responses # <<>> /\ exec[c].queue # <<>>)
              => (data' # data => exec'[c] # exec[c])]_vars

(***************************************************************************)
(* The bytes of a connection: the claims.                                  *)
(***************************************************************************)
\* the first n requests of the script were dispatched, each once, with its
\* verb and all its arguments, and nothing else was pushed
DispatchedUpTo(n) ==
    /\ Len(results) = n
    /\ \A i \in 1..n : /\ results[i].command = Join(to_uppercase(script[i][1]))
                       /\ results[i].args = Tail(script[i])

\* C15: whatever the split of the byte stream across reads, a request is
\* dispatched once with all its arguments when its last byte has arrived; until
\* then nothing of it is consumed, no error is reported and its bytes are kept.
C15_PartialFrameIsRetained ==
    script \in PlainScripts
        => /\ ~crashed
           /\ \E n \in 0..Len(script) :
                  /\ DispatchedUpTo(n)
                  /\ partial_message \o wire = EncodeAll(SubSeq(script, n + 1, Len(script)))

\* C16: a request is framed by the declared lengths of its bulk strings: when
\* the bytes of requests with \r\n in an argument have arrived in one read,
\* every request was dispatched with its arguments byte for byte and the
\* buffer is empty.
C16_FramedByDeclaredLength ==
    (script \in CrlfScripts /\ wire = <<>> /\ reads = 1)
        => /\ ~crashed
           /\ DispatchedUpTo(Len(script))
           /\ partial_message = <<>>

(***************************************************************************)
(* XREAD: the claims.                                                      *)
(***************************************************************************)
\* the identifier a start text stands for on a stream (a key without a
\* stream has nothing to return, whatever the text)
StartOf(stream, start_id_str) ==
    IF stream = EmptyMap THEN zero
    ELSE IF start_id_str = <<"$">> THEN MaxId(stream)
    ELSE from_str(start_id_str)

\* the identifiers of a stream that are strictly greater than start
Greater(stream, start) == {id \in DOMAIN stream : IdLess(start, id)}

\* the nested array of the listed keys that have entries to return
RECURSIVE StreamsText(_, _, _, _)
StreamsText(db, keys, starts, i) ==
    IF i > Len(keys) THEN ""
    ELSE LET stream == IF IsStream(db, keys[i]) THEN db[keys[i]].value.v ELSE EmptyMap
             ids == Ascending(Greater(stream, StartOf(stream, starts[i])))
         IN  (IF ids = <<>> THEN ""
              ELSE "*2\r\n" \o BulkOfText(Join(keys[i])) \o "*" \o to_string(Len(ids))
                       \o "\r\n" \o EntriesText(stream, ids))
                 \o StreamsText(db, keys, starts, i + 1)

\* C20: XREAD without BLOCK returns for each listed key exactly the entries
\* whose identifier is strictly greater than the identifier given for that
\* key, in ascending order, and never the entry with the given identifier.
C20_XreadReturnsStrictlyGreater ==
    (xlast.args # <<>> /\ xlast.args[1] = STREAMS /\ ~xlast.failed)
        => LET n == (Len(xlast.args) - 1) \div 2
               keys == SubSeq(xlast.args, 2, n + 1)
               starts == SubSeq(xlast.args, n + 2, 2 * n + 1)
               StreamOf(i) == IF IsStream(data, keys[i]) THEN data[keys[i]].value.v
                              ELSE EmptyMap
               listed == {i \in 1..n : Greater(StreamOf(i), StartOf(StreamOf(i), starts[i])) # {}}
           IN  /\ Len(xlast.picked) = n
               /\ \A i \in 1..n :
                      /\ Range(xlast.picked[i])
                            = Greater(StreamOf(i), StartOf(StreamOf(i), starts[i]))
                      /\ \A a \in 1..Len(xlast.picked[i]) : \A b \in 1..Len(xlast.picked[i]) :
                             a < b => IdLess(xlast.picked[i][a], xlast.picked[i][b])
                      /\ StartOf(StreamOf(i), starts[i]) \notin Range(xlast.picked[i])
               /\ xlast.resp = "*" \o to_string(Cardinality(listed)) \o "\r\n"
                                   \o StreamsText(data, keys, starts, 1)

\* two keys were read, the first from an identifier that the stream holds and
\* that is not its last, the second from 0-0
C20_Witness ==
    /\ xlast.args # <<>> /\ xlast.args[1] = STREAMS /\ ~xlast.failed
    /\ Len(xlast.args) = 5
    /\ xlast.args[2] = StreamKey /\ xlast.args[4] = <<"0", "-", "1">>
    /\ zero \notin DOMAIN StreamAt(data) /\ StreamID(0, 1) \in DOMAIN StreamAt(data)
    /\ Len(xlast.picked[1]) = 2 /\ Len(xlast.picked[2]) >= 1

\* the identifier given for the stream key in the blocking XREAD of session c
XreadId(c) == xread[c].args[xread[c].args_start + 1 + xread[c].num_streams + 1]

\* session c is in a blocking XREAD on the stream key
Blocked(c) == pc[c] \in {"xread_key", "xread_sleep"} /\ xread[c].is_blocking

\* C17: for XREAD BLOCK ms STREAMS key $ the identifier $ is the stream's
\* maximum at the start of the call, so an entry another session adds while
\* the call is suspended makes it wake and return that entry: the call never
\* goes back to sleep from a pass that has read an entry the stream did not
\* hold when the call began.
C17_DollarIsFixedAtCallStart ==
    \A c \in Clients :
        (Blocked(c) /\ pc[c] = "xread_sleep" /\ XreadId(c) = <<"$">>)
            => DOMAIN StreamAt(xhist[c].seen) \subseteq DOMAIN StreamAt(xhist[c].base)

\* C18: a suspended XREAD BLOCK ms with an explicit identifier ends with the
\* null bulk only when ms has elapsed without an entry greater than the
\* identifier: at the moment its timeout fires the stream holds no such entry.
C18_NullBulkOnlyWithoutNewEntry ==
    \A c \in Clients :
        (pc[c] = "respond" /\ cur[c].command = "XREAD" /\ cur[c].response = NullBulk
            /\ XreadId(c) # <<"$">>)
            => Greater(StreamAt(xhist[c].at_deadline), from_str(XreadId(c))) = {}

\* C19: when a client disconnects while its XREAD BLOCK is suspended, the
\* blocked read is cancelled and the session terminates.
C19_DisconnectCancelsXread ==
    \A c \in Clients : (gone[c] /\ Blocked(c)) ~> (pc[c] \in {"closed", "dead"})

(***************************************************************************)
(* The keyspace specification: SET, GET, TYPE and XADD of one session on   *)
(* two keys, and the passing of time past a record's time to live.  xlast  *)
(* records the last call, the keyspace before it, and per key the value of *)
(* the last SET that stored it.                                            *)
(***************************************************************************)
Keys == {<<"k">>, StreamKey}

\* the values a client may SET
Values == {<<"v">>, <<"0", "2">>, <<"+", "1">>, <<"1">>}

\* the PX arguments a client may give (None: no PX)
PxArgs == {<<"0">>, <<"1">>}

NoSets == [k \in Keys |-> <<>>]

InitKeys ==
    /\ data = EmptyMap
    /\ overflow_checks = TRUE
    /\ xlog = <<>>
    /\ xlast = [verb |-> "", args |-> <<>>, resp |-> "", panic |-> FALSE, db0 |-> EmptyMap,
                sets |-> NoSets]
    /\ InitPrimary /\ InitReplica /\ InitHistory /\ IdleCodec /\ IdleBlock

\* a handler's result without what only XREAD's result tells
Plain(db, r) == [db |-> db, resp |-> r.resp, panic |-> r.panic]

\* the match on the verb of parsing.rs with the arms of XREAD and XRANGE
RunCommand(command, args, db, env) ==
    IF command = "XREAD" THEN Plain(db, handle_xread(db, args))
    ELSE IF command = "XRANGE" THEN handle_xrange(db, args)
    ELSE Execute(command, args, db, env)

\* requests that are in error: a wrong number of arguments, an argument that
\* is no number where one is expected, a missing argument, an unknown verb
BadRequests ==
    {<<"SET", <<<<"k">>>>>>,
     <<"SET", <<<<"k">>, <<"v">>, PX, <<"a", "b", "c">>>>>>,
     <<"XADD", <<StreamKey, <<"a", "b", "c", "-", "*">>, <<"f">>, <<"v">>>>>>,
     <<"XADD", <<StreamKey, <<"1", "-", "1">>>>>>,
     <<"GET", <<>>>>,
     <<"XREAD", <<>>>>,
     <<"XRANGE", <<StreamKey>>>>,
     <<"ECHO", <<>>>>,
     <<"FOO", <<<<"k">>>>>>}

\* the handler of verb runs on args under the database lock; a panic ends
\* the session's task
KeyCall(verb, args, sets) ==
    /\ ~crashed
    /\ \E r \in {RunCommand(verb, args, data, [now |-> 1, checks |-> TRUE, soff |-> 0, moff |-> 0])} :
           /\ crashed' = r.panic
           /\ data' = r.db
           /\ xlast' = [verb |-> verb, args |-> args, resp |-> r.resp, panic |-> r.panic,
                        db0 |-> data,
                        sets |-> [k \in Keys |-> IF k \in DOMAIN r.db THEN sets[k] ELSE <<>>]]
    /\ UNCHANGED <<overflow_checks, xlog, primaryVars, replicaVars, historyVars,
                   wire, partial_message, results, script, reads, blockVars>>

KSet(key, v) == KeyCall("SET", <<key, v>>, [xlast.sets EXCEPT ![key] = v])

KSetPx(key, v, px) == KeyCall("SET", <<key, v, PX, px>>, [xlast.sets EXCEPT ![key] = v])

KGet(key) == KeyCall("GET", <<key>>, xlast.sets)

KType(key) == KeyCall("TYPE", <<key>>, xlast.sets)

KXadd(key) ==
    KeyCall("XADD", <<key, <<"1", "-", "1">>, <<"f">>, <<"v">>>>,
            IF db_has(data, key) THEN xlast.sets ELSE [xlast.sets EXCEPT ![key] = <<>>])

\* a request in error
KBad(request) == KeyCall(request[1], request[2], xlast.sets)

\* creation_time.elapsed() reaches the ttl of a record that is waiting
TtlPasses(key) ==
    /\ db_has(data, key) /\ data[key].ttl_state = "Waiting" /\ ~data[key].elapsed
    /\ data' = [data EXCEPT ![key].elapsed = TRUE]
    /\ xlast' = [xlast EXCEPT !.verb = "", !.args = <<>>, !.resp = "", !.panic = FALSE,
                              !.db0 = data]
    /\ UNCHANGED <<overflow_checks, xlog, primaryVars, replicaVars, historyVars,
                   codecVars, blockVars>>

NextKeys ==
    \E key \in Keys :
        \/ \E v \in Values : KSet(key, v)
        \/ \E v \in Values : \E px \in PxArgs : KSetPx(key, v, px)
        \/ KGet(key)
        \/ KType(key)
        \/ KXadd(key)
        \/ TtlPasses(key)
        \/ \E request \in BadRequests : KBad(request)

SpecKeys == InitKeys /\ [][NextKeys]_vars

(***************************************************************************)
(* Streams and strings: the claims.                                        *)
(***************************************************************************)
\* the last call was an XADD on the stream key that did not panic
XaddCalled == xlast.args # <<>> /\ xlast.args[1] = StreamKey /\ ~xlast.panic

\* the identifier the XADD chose from the identifier text
ChosenId ==
    XaddChoose(xlast.db0, StreamKey, xlast.args[2], xlast.now, overflow_checks)

\* C21: an XADD whose chosen identifier is (0,0) replies that the identifier
\* must be greater than 0-0, an XADD whose chosen identifier is another one
\* that is not strictly greater than the stream's maximum replies that it is
\* equal or smaller than the top item, and in both cases the keyspace is as
\* it was.
C21_XaddRejectsLowIds ==
    (XaddCalled /\ ChosenId.kind = "id" /\ ChosenId.id.sequence_number # None)
        => /\ ChosenId.id = zero
                => xlast.resp = ERR_XADD_ZERO /\ data = xlast.db0
           /\ (/\ ChosenId.id # zero
               /\ StreamAt(xlast.db0) # EmptyMap
               /\ ~IdLess(MaxId(StreamAt(xlast.db0)), ChosenId.id))
                => xlast.resp = ERR_XADD_TOP /\ data = xlast.db0

\* an XADD with the identifier of the top item was rejected, the stream
\* holding two entries
C21_Witness ==
    /\ XaddCalled /\ xlast.resp = ERR_XADD_TOP
    /\ Cardinality(DOMAIN StreamAt(data)) = 2
    /\ from_str_ok(xlast.args[2])
    /\ from_str(xlast.args[2]) = MaxId(StreamAt(data))

\* the sequence number to generate at ms on a stream: the largest one stored
\* at ms plus one, and without an entry at ms 0, or 1 for ms = 0
SeqRule(stream, ms) ==
    IF SeqsAt(stream, ms) # {} THEN MaxOf(SeqsAt(stream, ms)) + 1
    ELSE IF ms = 0 THEN 1 ELSE 0

\* the last call was an XADD that had to generate the sequence number, on a
\* key that held no string, and ms is the time part it was given or read
Generated(ms) ==
    /\ XaddCalled
    /\ ~db_has(xlast.db0, StreamKey) \/ IsStream(xlast.db0, StreamKey)
    /\ IF xlast.args[2] = <<"*">> THEN ms = xlast.now
       ELSE /\ ends_with(xlast.args[2], <<"-", "*">>)
            /\ parse_u64(trim_end_matches(xlast.args[2], <<"-", "*">>)) = ms

\* the last XADD replied with the identifier id and stored it
Added(id) ==
    /\ xlast.resp = BulkOfText(IdText(id))
    /\ IsStream(data, StreamKey)
    /\ DOMAIN StreamAt(data) = DOMAIN StreamAt(xlast.db0) \cup {id}

\* C22: when XADD generates the sequence number (ms-*, or * with ms read
\* from the clock), it is the largest one stored at that ms plus one, or 0
\* when the stream has no entry at that ms, or 1 when that ms is 0, whether
\* or not the key exists; and XADD * twice on an empty stream succeeds twice,
\* the second identifier being strictly greater.
C22_GeneratedSeqIsNext ==
    /\ \A ms \in 0..MaxMs :
           (/\ Generated(ms)
            /\ SeqRule(StreamAt(xlast.db0), ms) <= U64Max
            /\ \A id \in DOMAIN StreamAt(xlast.db0) :
                   IdLess(id, StreamID(ms, SeqRule(StreamAt(xlast.db0), ms))))
               => Added(StreamID(ms, SeqRule(StreamAt(xlast.db0), ms)))
    /\ (XaddCalled /\ xlast.args[2] = <<"*">> /\ ~db_has(xlast.db0, StreamKey))
           => \E id \in DOMAIN StreamAt(data) : Added(id)
    /\ (XaddCalled /\ xlast.args[2] = <<"*">> /\ xlast.after_star)
           => \E id \in DOMAIN StreamAt(data) :
                  /\ Added(id)
                  /\ \A old \in DOMAIN StreamAt(xlast.db0) : IdLess(old, id)

\* the identifiers the bounds of XRANGE stand for: - as a start, + as an end
StartBound(text) == IF text = <<"-">> THEN zero ELSE from_str(text)

EndBound(text) == IF text = <<"+">> THEN StreamID(U64Max, U64Max) ELSE from_str(text)

\* the last call is XRANGE key start end with well-formed bounds, on a key
\* that is absent or holds a stream
XrangeCalled ==
    /\ xlast.args # <<>> /\ Len(xlast.args) = 3 /\ xlast.args[1] \in {StreamKey, OtherKey}
    /\ xlast.args[2] # <<"+">> /\ xlast.args[3] # <<"-">>
    /\ IF db_has(data, xlast.args[1]) THEN IsStream(data, xlast.args[1]) ELSE TRUE

\* the identifiers of the stream at key that lie in the closed range of the
\* last XRANGE; none when the key is absent
InRange(key) ==
    IF ~db_has(data, key) THEN {}
    ELSE {id \in DOMAIN data[key].value.v :
              /\ ~IdLess(id, StartBound(xlast.args[2]))
              /\ ~IdLess(EndBound(xlast.args[3]), id)}

\* C23: XRANGE key start end returns exactly the entries whose identifier
\* lies in the closed range [start, end], - standing for (0,0) and + for
\* (MAX,MAX), in ascending order, and the empty array both when no entry
\* matches and when the key is absent.
C23_XrangeReturnsClosedRange ==
    XrangeCalled
        => /\ ~xlast.panic
           /\ xlast.resp =
                  IF InRange(xlast.args[1]) = {} THEN EMPTY_ARRAY
                  ELSE "*" \o to_string(Cardinality(InRange(xlast.args[1]))) \o "\r\n"
                           \o EntriesText(data[xlast.args[1]].value.v,
                                          Ascending(InRange(xlast.args[1])))

\* the last call was verb on a key of the keyspace
KeyCalled(verb) == xlast.verb = verb /\ ~xlast.panic /\ Len(xlast.args) = 1

\* C24: SET k v followed by GET k returns the bulk string v byte for byte,
\* also for values that look like numbers (007, +5): the last SET of the key
\* stored v, the record is still there and not expired, and GET replies v.
C24_GetReturnsWhatSetStored ==
    (/\ xlast.verb = "GET" /\ Len(xlast.args) = 1
     /\ db_has(xlast.db0, xlast.args[1]) /\ ~is_expired(xlast.db0[xlast.args[1]])
     /\ xlast.sets[xlast.args[1]] # <<>>)
        => /\ ~xlast.panic
           /\ xlast.resp = BulkOfText(Join(xlast.sets[xlast.args[1]]))

\* C25: GET on a key whose record has expired (its PX has passed, or it was
\* stored with PX 0) returns the null bulk and has removed the record.
C25_GetRemovesExpired ==
    (/\ xlast.verb = "GET" /\ Len(xlast.args) = 1
     /\ db_has(xlast.db0, xlast.args[1]) /\ is_expired(xlast.db0[xlast.args[1]]))
        => /\ ~xlast.panic
           /\ xlast.resp = NullBulk
           /\ ~db_has(data, xlast.args[1])
           /\ \A k \in Keys \ {xlast.args[1]} :
                  /\ db_has(data, k) = db_has(xlast.db0, k)
                  /\ db_has(data, k) => data[k] = xlast.db0[k]

C25_Witness ==
    /\ xlast.verb = "GET" /\ xlast.resp = NullBulk
    /\ db_has(xlast.db0, xlast.args[1])
    /\ xlast.db0[xlast.args[1]].ttl_state = "Waiting"
    /\ ~db_has(data, xlast.args[1])
    /\ \E k \in Keys : db_has(data, k)

\* C26: at every time, TYPE k returns none iff GET k returns the null bulk
\* iff k is absent or expired.
C26_TypeNoneIffGetNull ==
    \A k \in Keys :
        /\ (handle_type(data, <<k>>).resp = "+none\r\n")
               <=> (handle_get(data, <<k>>).resp = NullBulk)
        /\ (handle_get(data, <<k>>).resp = NullBulk)
               <=> (IF db_has(data, k) THEN is_expired(data[k]) ELSE TRUE)

\* the error replies of the requests in error
CommandErrors == {ERR_SET_ARGS, ERR_XADD_ARGS, ERR_XADD_ID, ERR_XREAD_ARGS, ERR_XREAD_STREAMS,
                  ERR_XRANGE_ARGS, ERR_ECHO_ARGS, ERR_UNKNOWN}

\* C27: no command error terminates the session: a request with a wrong
\* number of arguments, with an argument that is no number where one is
\* expected, with a missing argument or with an unknown verb is answered with
\* an -ERR reply, leaves the keyspace unchanged, and the session goes on.
C27_ErrorsKeepSession ==
    <<xlast.verb, xlast.args>> \in BadRequests
        => /\ ~xlast.panic /\ ~crashed
           /\ xlast.resp \in CommandErrors
           /\ data = xlast.db0

(***************************************************************************)
(* Bytes that are no frame: the claims.                                    *)
(***************************************************************************)
\* the error replies of parse_redis_message to bytes it cannot parse
FormatErrors == {ERR_FORMAT, ERR_INCOMPLETE, ERR_ARG_COUNT, ERR_BULK_LEN, ERR_INCOMPLETE_BULK,
                 ERR_EXPECTED_BULK}

\* C28: bytes that are not a valid frame are answered with an -ERR reply and
\* the session continues: once all the bytes have been read, the first reply
\* is an error, the invalid bytes are no longer in the session buffer, and
\* the requests written after them were dispatched, each with its arguments.
C28_InvalidBytesAreAnswered ==
    (script # <<>> /\ script[1][1] \in RawBytes \ {BarePing} /\ wire = <<>>)
        => /\ ~crashed
           /\ partial_message = <<>>
           /\ Len(results) = Len(script)
           /\ results[1].response \in FormatErrors
           /\ \A i \in 2..Len(script) :
                  /\ results[i].command = Join(to_uppercase(script[i][1]))
                  /\ results[i].args = Tail(script[i])

\* C30: a client that writes the bare line PING\r\n receives exactly +PONG:
\* once the line has been read, the one reply pushed for it is +PONG.
C30_BarePingGetsPong ==
    (script # <<>> /\ script[1][1] = BarePing /\ Len(wire) <= Len(EncodeAll(Tail(script))))
        => /\ ~crashed
           /\ results # <<>>
           /\ results[1].response = "+PONG\r\n"

(***************************************************************************)
(* A client that writes and waits, and the replica.                        *)
(***************************************************************************)
NextAck ==
    \/ \E f \in {F_SET("1"), F_GET, F_WAIT("1")} : ClientSend("c1", f, MaxCmds)
    \/ \E c \in TxConns : AcquireRead(c)
    \/ \E c \in TxConns : ReadData(c)
    \/ \E c \in TxConns : ReadTimeout(c)
    \/ \E c \in TxConns : Dispatch(c)
    \/ \E c \in TxConns : Respond(c)
    \/ \E c \in TxConns : RespondFullresync(c)
    \/ \E c \in TxConns : Register(c)
    \/ \E c \in TxConns : Forward(c)
    \/ \E c \in TxConns : OffsetInc(c)
    \/ \E c \in TxConns : RespondWait(c)
    \/ \E c \in TxConns : WaitSend(c)
    \/ \E c \in TxConns : WaitStart(c)
    \/ \E c \in TxConns : WaitLock(c)
    \/ \E c \in TxConns : WaitRead(c)
    \/ \E c \in TxConns : WaitSleep(c)
    \/ \E c \in TxConns : WaitTimeout(c)
    \/ \E c \in TxConns : WaitReply(c)
    \/ \E c \in TxConns : AfterWait(c)
    \/ \E r \in Replicas : RepRecv(r)

SpecAck == Init /\ [][NextAck]_vars

(***************************************************************************)
(* What a replica writes to the primary: the claim.                        *)
(***************************************************************************)
\* the frame that heads the replica's connection is REPLCONF GETACK *
GetackHeads(r) ==
    /\ chan[r] # <<>> /\ Head(chan[r]).kind = "frame"
    /\ Head(chan[r]).frame = replconf_getack_message

\* C29: a replica writes no reply to the primary for a propagated write: the
\* only frames it writes on that connection after the handshake are REPLCONF
\* ACK <offset>, each in answer to a REPLCONF GETACK * it has just taken.
C29_ReplicaWritesOnlyAcks ==
    [][\A r \in Replicas :
           Len(inbox'[r]) > Len(inbox[r])
               => /\ GetackHeads(r)
                  /\ inbox'[r] = Append(inbox[r], AckFrame(slave_repl_offset[r]))]_vars

C29_Witness ==
    \E r \in Replicas :
        /\ rdata[r] # EmptyMap
        /\ rcvd_bytes[r] > replconf_getack_byte_len
        /\ inbox[r] # <<>> /\ IsAck(inbox[r][Len(inbox[r])])

(***************************************************************************)
(* A replica that closes its connection: one client that writes, and the   *)
(* replica, which may close its connection at any moment.                  *)
(***************************************************************************)
\* lines 212-219: write_all or flush on the stream of a replica that has
\* closed its connection returns an error, and the ? operator returns it from
\* handle_client: the session of the client whose write is forwarded ends
ForwardFails(c) ==
    /\ pc[c] = "forward" /\ slaves[c] # <<>>
    /\ lock[Head(slaves[c])] = Free
    /\ gone[Head(slaves[c])]
    /\ pc' = [pc EXCEPT ![c] = "closed"]
    /\ slaves' = [slaves EXCEPT ![c] = <<>>]
    /\ UNCHANGED <<streamVars, replicaVars, historyVars, codecVars, blockVars,
                   master_repl_offset, slave_connections, lock, inbox, pending, cur,
                   client_state, exec, wait, out, awaiting, nsent>>

\* the replica process reads from its connection while it has not closed it
RepRecvOpen(r) == ~gone[r] /\ RepRecv(r)

NextLink ==
    \/ ClientSend("c1", F_SET("1"), MaxWrites)
    \/ \E r \in Replicas : ClientGone(r)
    \/ \E c \in TxConns : AcquireRead(c)
    \/ \E c \in TxConns : ReadData(c)
    \/ \E c \in TxConns : ReadClosed(c)
    \/ \E c \in TxConns : Dispatch(c)
    \/ \E c \in TxConns : Respond(c)
    \/ \E c \in TxConns : RespondFullresync(c)
    \/ \E c \in TxConns : Register(c)
    \/ \E c \in TxConns : Forward(c)
    \/ \E c \in TxConns : ForwardFails(c)
    \/ \E c \in TxConns : OffsetInc(c)
    \/ \E r \in Replicas : RepRecvOpen(r)

SpecLink == Init /\ [][NextLink]_vars

\* C31: a replica connection is in the registry from the completion of its
\* synchronisation until its connection closes or a write to it fails: the
\* stream of a session that has ended is not in slave_connections, and the
\* session of a client ends only when that client has closed its connection
\* (a failed write to a replica does not end the session of the client whose
\* write was being propagated).
C31_RegistryHoldsLiveReplicas ==
    /\ \A r \in Replicas : pc[r] = "closed" => r \notin Range(slave_connections)
    /\ \A c \in Clients : pc[c] = "closed" => gone[c]

\* a replica's connection has closed and its entry is still in the registry
C31_StaleEntry ==
    \A r \in Replicas : pc[r] = "closed" => r \notin Range(slave_connections)

\* the session of a client that is still connected has ended
C31_WriterSurvives == \A c \in Clients : pc[c] = "closed" => gone[c]

(***************************************************************************)
(* The handshake of a replica (replication.rs, initialize_replication and  *)
(* send_replconf) with the session of the primary that serves it, and one  *)
(* client that writes.                                                     *)
(***************************************************************************)
\* the port the replica listens on
ListeningPort == <<"6", "3", "8", "0">>

F_PING == <<<<"P", "I", "N", "G">>>>

\* lines 12-17
F_REPLCONF_PORT ==
    <<REPLCONF, <<"l", "i", "s", "t", "e", "n", "i", "n", "g", "-", "p", "o", "r", "t">>,
      ListeningPort>>

\* line 20
F_REPLCONF_CAPA ==
    <<REPLCONF, <<"c", "a", "p", "a">>, <<"e", "o", "f">>, <<"c", "a", "p", "a">>,
      <<"p", "s", "y", "n", "c", "2">>>>

\* REPLCONF capa psync2
F_REPLCONF_PSYNC2 == <<REPLCONF, <<"c", "a", "p", "a">>, <<"p", "s", "y", "n", "c", "2">>>>

\* what one read of the replica returns: everything the primary has written
RECURSIVE ReadText(_)
ReadText(items) ==
    IF items = <<>> THEN "" ELSE Head(items).text \o ReadText(Tail(items))

\* response.contains("+OK"), for the replies the primary writes
contains_ok(items) == \E i \in 1..Len(items) : items[i].text = OK

\* nothing has been sent: the replica has connected to the primary
InitHandshake ==
    /\ data = EmptyMap
    /\ overflow_checks = TRUE
    /\ xlog = <<>>
    /\ xlast = NoCall
    /\ master_repl_offset = 0
    /\ slave_connections = <<>>
    /\ lock = [c \in Conns \cup {DbLock} |-> Free]
    /\ pc = [c \in Conns |-> "next"]
    /\ inbox = [c \in Conns |-> <<>>]
    /\ pending = [c \in Conns |-> <<>>]
    /\ cur = [c \in Conns |-> NoCur]
    /\ client_state = [c \in Conns |-> NoQueue]
    /\ exec = [c \in Conns |-> NoExec]
    /\ slaves = [c \in Conns |-> <<>>]
    /\ wait = [c \in Conns |-> NoWait]
    /\ out = [c \in Clients |-> ""]
    /\ awaiting = [c \in Clients |-> FALSE]
    /\ nsent = [c \in Conns |-> 0]
    /\ chan = [r \in Replicas |-> <<>>]
    /\ rdata = [r \in Replicas |-> EmptyMap]
    /\ slave_repl_offset = [r \in Replicas |-> 0]
    /\ rstuck = [r \in Replicas |-> FALSE]
    /\ rclient = [r \in Replicas |-> 0]
    /\ handshake = [r \in Replicas |-> "start"]
    /\ InitHistory /\ IdleCodec /\ IdleBlock

\* the replica's step from one handshake position to the next, writing frames
HandshakeStep(r, to, frames, taken) ==
    /\ handshake' = [handshake EXCEPT ![r] = to]
    /\ inbox' = [inbox EXCEPT ![r] = @ \o frames]
    /\ chan' = IF taken THEN [chan EXCEPT ![r] = <<>>] ELSE chan
    /\ UNCHANGED <<streamVars, historyVars, codecVars, blockVars, master_repl_offset,
                   slave_connections, lock, pc, pending, cur, client_state, exec, slaves,
                   wait, out, awaiting, nsent, rdata, slave_repl_offset, rstuck, rclient>>

\* initialize_replication, line 234: PING is written
SendPing(r) ==
    /\ handshake[r] = "start"
    /\ HandshakeStep(r, "ping_sent", <<F_PING>>, FALSE)

\* initialize_replication, lines 238-242, and send_replconf, lines 12-21: the
\* read returns bytes, whatever they are; both REPLCONF frames are written
\* one after the other
send_replconf(r) ==
    /\ handshake[r] = "ping_sent" /\ chan[r] # <<>>
    /\ HandshakeStep(r, "replconf_sent", <<F_REPLCONF_PORT, F_REPLCONF_CAPA>>, TRUE)

\* initialize_replication, lines 235 and 244: no byte arrives within the read
\* timeout of two seconds
PingTimeout(r) ==
    /\ handshake[r] = "ping_sent" /\ chan[r] = <<>>
    /\ HandshakeStep(r, "stopped", <<>>, FALSE)

\* send_replconf, lines 24-39: one read; PSYNC is written when what it
\* returned contains +OK
SendPsync(r) ==
    /\ handshake[r] = "replconf_sent" /\ chan[r] # <<>>
    /\ IF contains_ok(chan[r])
       THEN HandshakeStep(r, "psync_sent", <<F_PSYNC>>, TRUE)
       ELSE HandshakeStep(r, "stopped", <<>>, TRUE)

\* send_replconf, line 25: the read times out and ? returns the error
OkTimeout(r) ==
    /\ handshake[r] = "replconf_sent" /\ chan[r] = <<>>
    /\ HandshakeStep(r, "stopped", <<>>, FALSE)

\* after PSYNC the replica processes what the primary sends
RepRecvSynced(r) == handshake[r] = "psync_sent" /\ RepRecv(r)

NextHandshake ==
    \/ ClientSend("c1", F_SET("1"), MaxWrites)
    \/ \E r \in Replicas : SendPing(r)
    \/ \E r \in Replicas : send_replconf(r)
    \/ \E r \in Replicas : PingTimeout(r)
    \/ \E r \in Replicas : SendPsync(r)
    \/ \E r \in Replicas : OkTimeout(r)
    \/ \E c \in TxConns : AcquireRead(c)
    \/ \E c \in TxConns : ReadData(c)
    \/ \E c \in TxConns : Dispatch(c)
    \/ \E c \in TxConns : Respond(c)
    \/ \E c \in TxConns : RespondFullresync(c)
    \/ \E c \in TxConns : Register(c)
    \/ \E c \in TxConns : Forward(c)
    \/ \E c \in TxConns : OffsetInc(c)
    \/ \E r \in Replicas : RepRecvSynced(r)

SpecHandshake == InitHandshake /\ [][NextHandshake]_vars

\* the handshake of the claim: the frames in order, and before each the
\* reply to the frame before it
HandshakeFrames == <<F_PING, F_REPLCONF_PORT, F_REPLCONF_PSYNC2, F_PSYNC>>

HandshakeReplies == <<"", "+PONG\r\n", OK, OK>>

\* the number of frames the replica has written when it is at position h
FramesWritten(h) ==
    CASE h = "start" -> 0
      [] h = "ping_sent" -> 1
      [] h = "replconf_sent" -> 3
      [] h = "psync_sent" -> 4
      [] OTHER -> 0

\* C32: the replica sends its handshake strictly in the order PING, REPLCONF
\* listening-port <port>, REPLCONF capa psync2, PSYNC ? -1, each frame only
\* after it has read the expected reply to the frame before it (+PONG, +OK,
\* +OK): a step of the handshake writes at most one frame, the next of that
\* order, and when it writes one after the first it has just read the
\* expected reply.
C32_HandshakeInOrder ==
    [][\A r \in Replicas :
           handshake'[r] # handshake[r]
               => \/ /\ handshake'[r] = "stopped"
                     /\ inbox'[r] = inbox[r]
                  \/ \E k \in 1..Len(HandshakeFrames) :
                        /\ k = FramesWritten(handshake[r]) + 1
                        /\ inbox'[r] = Append(inbox[r], HandshakeFrames[k])
                        /\ k > 1 => ReadText(chan[r]) = HandshakeReplies[k]]_vars

(***************************************************************************)
(* The offset a replica acknowledges: the claim.                           *)
(***************************************************************************)
\* C33: on REPLCONF GETACK * the replica replies REPLCONF ACK <n>, an array
\* of three bulk strings, where n is slave_repl_offset as it stands when the
\* frame is taken: the bytes of every frame received before the GETACK frame
\* and not those of the GETACK frame itself, whose length is added after the
\* reply is computed.
C33_AckExcludesGetack ==
    [][\A r \in Replicas :
           (GetackHeads(r) /\ chan'[r] = Tail(chan[r]))
               => /\ inbox'[r] = Append(inbox[r], AckFrame(slave_repl_offset[r]))
                  /\ IsAck(AckFrame(slave_repl_offset[r]))
                  /\ slave_repl_offset[r] = rcvd_bytes[r]
                  /\ slave_repl_offset'[r] =
                         slave_repl_offset[r] + replconf_getack_byte_len]_vars

\* the replica has answered a GETACK that followed other frames
C33_Witness ==
    \E r \in Replicas :
        /\ answered[r].offset # None /\ answered[r].offset > 0
        /\ slave_repl_offset[r] = answered[r].offset + replconf_getack_byte_len
        /\ inbox[r] # <<>> /\ inbox[r][Len(inbox[r])] = AckFrame(answered[r].offset)

(***************************************************************************)
(* Who receives a replica's acknowledgements: the claim.                   *)
(***************************************************************************)
\* the number of REPLCONF ACK frames among the frames a replica has written
AckCount(frames) == Cardinality({i \in 1..Len(frames) : IsAck(frames[i])})

\* C34: every REPLCONF ACK frame a replica sends is counted: whenever ACK
\* frames are taken from a replica's connection, the acknowledgement counter
\* of a WAIT grows by their number; no ACK is consumed without being counted.
C34_EveryAckIsCounted ==
    [][\A r \in Replicas :
           AckCount(inbox'[r]) < AckCount(inbox[r])
               => \E c \in Conns :
                      wait'[c].responding_slaves =
                          wait[c].responding_slaves + AckCount(inbox[r])
                              - AckCount(inbox'[r])]_vars

(***************************************************************************)
(* The database lock and the writes to replicas: one client that writes or *)
(* waits, another that writes once, and the replica.                       *)
(***************************************************************************)
NextLock ==
    \/ \E f \in {F_SET("1"), F_WAIT("1")} : ClientSend("c1", f, MaxOther)
    \/ ClientSend("c2", F_SET("2"), 1)
    \/ \E c \in Conns : AcquireRead(c)
    \/ \E c \in Conns : ReadData(c)
    \/ \E c \in Conns : ReadTimeout(c)
    \/ \E c \in Conns : Dispatch(c)
    \/ \E c \in Conns : Respond(c)
    \/ \E c \in Conns : RespondFullresync(c)
    \/ \E c \in Conns : Register(c)
    \/ \E c \in Conns : Forward(c)
    \/ \E c \in Conns : OffsetInc(c)
    \/ \E c \in Conns : RespondWait(c)
    \/ \E c \in Conns : WaitSend(c)
    \/ \E c \in Conns : WaitStart(c)
    \/ \E c \in Conns : WaitLock(c)
    \/ \E c \in Conns : WaitRead(c)
    \/ \E c \in Conns : WaitSleep(c)
    \/ \E c \in Conns : WaitTimeout(c)
    \/ \E c \in Conns : WaitReply(c)
    \/ \E c \in Conns : AfterWait(c)
    \/ \E r \in Replicas : RepRecv(r)

SpecLock == Init /\ [][NextLock]_vars

\* the session of c is about to write a frame to a replica
WritesToReplica(c) == pc[c] \in {"forward", "wait_send"} /\ slaves[c] # <<>>

IdleInRead(t) == pc[t] = "reading" /\ lock[t] = t /\ inbox[t] = <<>>

\* C36: propagating a write, or a WAIT's GETACK, to a replica never has to
\* wait for the replica to send data: when a session has a frame to write to
\* a replica, the session that reads from that replica's connection does not
\* hold the connection's lock while it is idle in a read.
C36_FanOutNeverWaitsForReplica ==
    \A c \in Conns : WritesToReplica(c) => ~IdleInRead(Head(slaves[c]))

(***************************************************************************)
(* The writes applied while a replica synchronises: the claim.             *)
(***************************************************************************)
\* C37: every write the primary applies after it has sent +FULLRESYNC to a
\* replica is delivered to that replica: once every request is finished,
\* each write applied after the +FULLRESYNC line was written has been written
\* to the registered replica.
C37_NoWriteMissedAfterFullresync ==
    \A r \in Replicas :
        (Quiescent /\ r \in Range(slave_connections))
            => \A i \in (done[r].sync_at + 1)..Len(applied) :
                   applied[i] \in Range(sentlog[r])

(***************************************************************************)
(* A connection that synchronises twice: one client that writes, and a     *)
(* replica that sends PSYNC once more after it was registered.             *)
(***************************************************************************)
\* the peer of a registered connection writes PSYNC ? -1 again
Resync(r) ==
    /\ r \in Range(slave_connections) /\ nsent[r] < 1
    /\ inbox' = [inbox EXCEPT ![r] = Append(@, F_PSYNC)]
    /\ nsent' = [nsent EXCEPT ![r] = @ + 1]
    /\ UNCHANGED <<streamVars, replicaVars, historyVars, codecVars, blockVars,
                   master_repl_offset, slave_connections, lock, pc, pending, cur,
                   client_state, exec, slaves, wait, out, awaiting>>

NextResync ==
    \/ ClientSend("c1", F_SET("1"), MaxWrites)
    \/ \E r \in Replicas : Resync(r)
    \/ \E c \in TxConns : AcquireRead(c)
    \/ \E c \in TxConns : ReadData(c)
    \/ \E c \in TxConns : Dispatch(c)
    \/ \E c \in TxConns : Respond(c)
    \/ \E c \in TxConns : RespondFullresync(c)
    \/ \E c \in TxConns : Register(c)
    \/ \E c \in TxConns : Forward(c)
    \/ \E c \in TxConns : OffsetInc(c)
    \/ \E r \in Replicas : RepRecv(r)

SpecResync == Init /\ [][NextResync]_vars

\* the positions of x in a sequence
Positions(seq, x) == {i \in 1..Len(seq) : seq[i] = x}

\* C38: the registry holds each connection at most once, so that every
\* propagated frame is delivered to a given replica exactly once, even when
\* the same connection sends PSYNC more than once.
C38_RegistryHasNoDuplicates ==
    /\ \A c \in Conns : Cardinality(Positions(slave_connections, c)) <= 1
    /\ \A r \in Replicas : \A w \in Range(applied) :
           Cardinality(Positions(sentlog[r], w)) <= 1

(***************************************************************************)
(* Frames that arrive in pieces: a client writes one XADD with two         *)
(* field-value pairs, or one SET, and the reads return it piece by piece.  *)
(***************************************************************************)
F_XADD_PAIRS ==
    <<<<"X", "A", "D", "D">>, StreamKey, <<"1", "-", "1">>, <<"f">>, <<"v">>, <<"g">>, <<"w">>>>

PartialScripts == {<<F_XADD_PAIRS>>, <<F_SETV(<<"v">>)>>}

InitPartial ==
    /\ data = EmptyMap
    /\ overflow_checks = TRUE
    /\ xlog = <<>>
    /\ xlast = NoCall
    /\ InitPrimary /\ InitReplica /\ InitHistory /\ IdleBlock
    /\ script \in PartialScripts
    /\ wire = EncodeAll(script)
    /\ partial_message = <<>>
    /\ results = <<>>
    /\ crashed = FALSE
    /\ reads = 0

SpecPartial == InitPartial /\ [][NextCodec]_vars

\* C39: a request frame of which fewer bulk strings have arrived than its
\* element count declares never executes: while bytes of the frame are still
\* to come the keyspace is unchanged and nothing has been replied, and every
\* handler that has run was given the whole argument list of the frame.
C39_PartialFrameNeverExecutes ==
    /\ wire # <<>> => (data = EmptyMap /\ results = <<>>)
    /\ \A i \in 1..Len(results) :
           results[i].command # ""
               => /\ results[i].command = Join(to_uppercase(script[1][1]))
                  /\ results[i].args = Tail(script[1])

(***************************************************************************)
(* Expiry on the replica: one client that sends SET k 1 PX ms, and the     *)
(* replica; time passes on the primary.                                    *)
(***************************************************************************)
F_SETPX(ms) == <<<<"S", "E", "T">>, <<"k">>, <<"1">>, PX, ms>>

NextExpiry ==
    \/ \E ms \in PxArgs : ClientSend("c1", F_SETPX(ms), MaxWrites)
    \/ TtlPasses(<<"k">>)
    \/ \E c \in TxConns : AcquireRead(c)
    \/ \E c \in TxConns : ReadData(c)
    \/ \E c \in TxConns : Dispatch(c)
    \/ \E c \in TxConns : Respond(c)
    \/ \E c \in TxConns : RespondFullresync(c)
    \/ \E c \in TxConns : Register(c)
    \/ \E c \in TxConns : Forward(c)
    \/ \E c \in TxConns : OffsetInc(c)
    \/ \E r \in Replicas : RepRecv(r)

SpecExpiry == Init /\ [][NextExpiry]_vars

\* the last write the primary applied has been written to replica r, and r
\* has processed everything written to it
Delivered(r) ==
    /\ Quiescent /\ chan[r] = <<>> /\ ~rstuck[r]
    /\ applied # <<>> /\ applied[Len(applied)] \in Range(sentlog[r])

\* C40: after the primary has applied SET k v PX ms and the frame has been
\* delivered to a replica, the replica's record for k carries the same expiry
\* as the primary's: once k has expired on the primary, GET k on the replica
\* returns the null bulk as well.
C40_ReplicaKeepsExpiry ==
    \A r \in Replicas :
        (Delivered(r) /\ db_has(data, <<"k">>))
            => /\ db_has(rdata[r], <<"k">>)
               /\ rdata[r][<<"k">>].ttl_state = data[<<"k">>].ttl_state
               /\ is_expired(data[<<"k">>])
                      => handle_get(rdata[r], <<<<"k">>>>).resp = NullBulk
====
